---- MODULE Spec2Model ----
(***************************************************************************)
(* The forecast / what-if calculation engine of the business simulation   *)
(* front end (src/src/utils/simulationUtils.ts), the session store kept   *)
(* in localStorage (src/src/lib/businessSimulationState.ts), the debounced *)
(* adjust request of AdjustmentSliders and the questionnaire step of the   *)
(* BusinessSimulation wizard.                                              *)
(*                                                                         *)
(* JavaScript values are records [t, i, r, d]: a finite number is the     *)
(* exact rational i + r/d with 0 <= r < d in lowest terms (t = "num");    *)
(* the other kinds are NaN, +/-Infinity (sign in i), undefined, null and  *)
(* a non-empty non-numeric string; an object is a record with t = "obj".  *)
(* Arithmetic is exact, so a value that IEEE-754 doubles would round      *)
(* (0.2 * 1.5, or a tie at Math.round) is the mathematical one here.      *)
(***************************************************************************)
EXTENDS Integers, Sequences, FiniteSets, TLC

VARIABLES simulationData, priceValue, marketingValue, withFactors,
          laborAutomation, productionEfficiency, inventoryTurnover,
          pc, baselineData, priceImpact, marketingBoost, automationImpact,
          efficiencyImpact, inventoryImpact, forecastData, summaryMetrics,
          localStorage, now, listeners, removed, invoked, observed,
          called, returned, before,
          values, props, timeouts, clock, lastChange, sentSinceChange, lastRequest,
          currentStep, answered, requests, issued, applied, completion,
          finalOutcome, resultsTimer

inputs == <<simulationData, priceValue, marketingValue, withFactors,
            laborAutomation, productionEfficiency, inventoryTurnover>>

vars == <<simulationData, priceValue, marketingValue, withFactors,
          laborAutomation, productionEfficiency, inventoryTurnover,
          pc, baselineData, priceImpact, marketingBoost, automationImpact,
          efficiencyImpact, inventoryImpact, forecastData, summaryMetrics,
          localStorage, now, listeners, removed, invoked, observed,
          called, returned, before,
          values, props, timeouts, clock, lastChange, sentSinceChange, lastRequest,
          currentStep, answered, requests, issued, applied, completion,
          finalOutcome, resultsTimer>>

\* the calculation pipeline of the Sandbox page
pipeline == <<simulationData, priceValue, marketingValue, withFactors,
              laborAutomation, productionEfficiency, inventoryTurnover,
              pc, baselineData, priceImpact, marketingBoost, automationImpact,
              efficiencyImpact, inventoryImpact, forecastData, summaryMetrics>>

\* the session store: the localStorage entry, the clock, the registered
\* listeners, and the record of the last call made on the store
session == <<localStorage, now, listeners, removed, invoked, observed,
             called, returned, before>>

\* the AdjustmentSliders component: its slider values, the identity of its
\* props, the pending timers of its debounced functions, the clock in
\* milliseconds, and the record of the requests it has sent
sliders == <<values, props, timeouts, clock, lastChange, sentSinceChange, lastRequest>>

\* the BusinessSimulation wizard: its step, the answers given, the simulation
\* requests in flight, and the progress of handleQuestionnaireComplete
wizard == <<currentStep, answered, requests, issued, applied, completion,
            finalOutcome, resultsTimer>>

----------------------------------------------------------------------------
(* JavaScript values and arithmetic *)

RECURSIVE Gcd(_, _)
Gcd(a, b) == IF b = 0 THEN a ELSE Gcd(b, a % b)

\* n/d for d > 0, given g = gcd(n % d, d)
Reduced(n, d, g) == [t |-> "num", i |-> n \div d, r |-> (n % d) \div g, d |-> d \div g]

NumPos(n, d) == Reduced(n, d, Gcd(n % d, d))

\* the number n/d (d # 0): integer part i = floor(n/d), fraction r/d in lowest terms
Num(n, d) == NumPos(IF d < 0 THEN -n ELSE n, IF d < 0 THEN -d ELSE d)

N(k) == [t |-> "num", i |-> k, r |-> 0, d |-> 1]

NaN == [t |-> "nan", i |-> 0, r |-> 0, d |-> 1]

Inf(s) == [t |-> "inf", i |-> s, r |-> 0, d |-> 1]

Undef == [t |-> "undef", i |-> 0, r |-> 0, d |-> 1]

Null == [t |-> "null", i |-> 0, r |-> 0, d |-> 1]

\* a non-empty string that is not a numeral, such as "abc"
Str == [t |-> "str", i |-> 0, r |-> 0, d |-> 1]

\* the object literal {}
EmptyObj == [t |-> "obj"]

Sign(a) == IF a.i < 0 THEN -1 ELSE IF a.i = 0 /\ a.r = 0 THEN 0 ELSE 1

\* ToNumber: null converts to 0, undefined and a non-numeric string to NaN
ToNumber(v) ==
  CASE v.t \in {"num", "inf", "nan"} -> v
    [] v.t = "null" -> N(0)
    [] OTHER -> NaN

NumNeg(a) ==
  CASE a.t = "nan" -> NaN
    [] a.t = "inf" -> Inf(-a.i)
    [] OTHER -> IF a.r = 0 THEN N(-a.i)
                ELSE [t |-> "num", i |-> -a.i - 1, r |-> a.d - a.r, d |-> a.d]

\* i + f for an integer i
WithInt(i, f) == [f EXCEPT !.i = i + f.i]

\* ar/ad + br/bd over the common denominator l
FracSum(ar, ad, br, bd, l) == Num(ar * (l \div ad) + br * (l \div bd), l)

NumAdd(a, b) ==
  CASE a.t = "nan" \/ b.t = "nan" -> NaN
    [] a.t = "inf" /\ b.t = "inf" -> IF a.i = b.i THEN a ELSE NaN
    [] a.t = "inf" -> a
    [] b.t = "inf" -> b
    [] a.r = 0 -> [b EXCEPT !.i = a.i + b.i]
    [] b.r = 0 -> [a EXCEPT !.i = a.i + b.i]
    [] OTHER -> WithInt(a.i + b.i,
                        FracSum(a.r, a.d, b.r, b.d, (a.d \div Gcd(a.d, b.d)) * b.d))

RECURSIVE NumSum(_)
NumSum(s) == IF Len(s) = 1 THEN s[1] ELSE NumAdd(s[1], NumSum(Tail(s)))

\* (k/g) * r / (d/g) for an integer k and g = gcd(k, d)
IntFracBy(k, r, d, g) == Num((k \div g) * r, d \div g)

\* k * (r/d) for an integer k
IntFrac(k, r, d) == IntFracBy(k, r, d, Gcd(k, d))

\* (ar/ad) * (br/bd), cancelling g1 = gcd(ar, bd) and g2 = gcd(br, ad) first
FracMul(ar, ad, br, bd, g1, g2) ==
  Num((ar \div g1) * (br \div g2), (ad \div g2) * (bd \div g1))

NumMul(a, b) ==
  CASE a.t = "nan" \/ b.t = "nan" -> NaN
    [] a.t = "inf" \/ b.t = "inf" ->
         IF Sign(a) = 0 \/ Sign(b) = 0 THEN NaN ELSE Inf(Sign(a) * Sign(b))
    [] OTHER ->
         NumSum(<<N(a.i * b.i),
                  FracMul(a.r, a.d, b.r, b.d, Gcd(a.r, b.d), Gcd(b.r, a.d)),
                  IntFrac(a.i, b.r, b.d),
                  IntFrac(b.i, a.r, a.d)>>)

NumDiv(a, b) ==
  CASE a.t = "nan" \/ b.t = "nan" -> NaN
    [] a.t = "inf" /\ b.t = "inf" -> NaN
    [] a.t = "inf" -> Inf(IF Sign(b) < 0 THEN -a.i ELSE a.i)
    [] b.t = "inf" -> N(0)
    [] Sign(b) = 0 -> IF Sign(a) = 0 THEN NaN ELSE Inf(Sign(a))
    [] OTHER -> NumMul(a, Num(b.d, b.i * b.d + b.r))

\* a < b on numbers; every comparison with NaN is false
NumLt(a, b) ==
  CASE a.t = "nan" \/ b.t = "nan" -> FALSE
    [] a.t = "inf" -> a.i = -1 /\ ~(b.t = "inf" /\ b.i = -1)
    [] b.t = "inf" -> b.i = 1
    [] OTHER -> a.i < b.i \/ (a.i = b.i /\ a.r * b.d < b.r * a.d)

\* the binary operators +, -, *, /, > and unary - on arbitrary values
JAdd(a, b) ==
  IF a.t = "str" \/ b.t = "str" THEN Str
  ELSE NumAdd(ToNumber(a), ToNumber(b))

JSub(a, b) == NumAdd(ToNumber(a), NumNeg(ToNumber(b)))

JMul(a, b) == NumMul(ToNumber(a), ToNumber(b))

JDiv(a, b) == NumDiv(ToNumber(a), ToNumber(b))

JNeg(a) == NumNeg(ToNumber(a))

JGt(a, b) == NumLt(ToNumber(b), ToNumber(a))

MathMin(a, b) ==
  LET x == ToNumber(a)
      y == ToNumber(b)
  IN  IF x.t = "nan" \/ y.t = "nan" THEN NaN
      ELSE IF NumLt(y, x) THEN y ELSE x

MathMax(a, b) ==
  LET x == ToNumber(a)
      y == ToNumber(b)
  IN  IF x.t = "nan" \/ y.t = "nan" THEN NaN
      ELSE IF NumLt(x, y) THEN y ELSE x

MathFloor(a) ==
  LET x == ToNumber(a)
  IN  IF x.t = "num" THEN N(x.i) ELSE x

\* Math.round rounds to the nearest integer, halves towards +Infinity
MathRound(a) ==
  LET x == ToNumber(a)
  IN  IF x.t = "num"
      THEN N(x.i + (IF 2 * x.r >= x.d THEN 1 ELSE 0))
      ELSE x

\* falsy: 0, NaN, null, undefined (and the empty string, which Str is not)
Truthy(v) ==
  CASE v.t = "num" -> Sign(v) # 0
    [] v.t \in {"nan", "undef", "null"} -> FALSE
    [] OTHER -> TRUE

\* a || b
Or(a, b) == IF Truthy(a) THEN a ELSE b

\* o.f: a missing property, or a property of a primitive, reads as undefined
Get(o, f) == IF o.t = "obj" /\ f \in DOMAIN o THEN o[f] ELSE Undef

IsFinite(v) == v.t = "num"

\* reading a property of null or undefined throws a TypeError
PropertyReadThrows(o) == "t" \in DOMAIN o /\ o.t \in {"undef", "null"}

NonNegative(v) == v.t = "num" /\ v.i >= 0

----------------------------------------------------------------------------
(* extractPLData *)

\* mutant: a default snapshot whose profit is not revenue less costs
defaultData_WrongProfit ==
  [monthlyRevenue  |-> N(100000),
   monthlyCOGS     |-> N(60000),
   monthlyLabor    |-> N(20000),
   monthlyOverhead |-> N(12000),
   monthlyProfit   |-> N(28000),
   averagePrice    |-> N(50),
   unitsSold       |-> N(2000),
   marketingSpend  |-> N(3000)]

defaultData ==
  [monthlyRevenue  |-> N(100000),
   monthlyCOGS     |-> N(60000),
   monthlyLabor    |-> N(20000),
   monthlyOverhead |-> N(12000),
   monthlyProfit   |-> N(8000),
   averagePrice    |-> N(50),
   unitsSold       |-> N(2000),
   marketingSpend  |-> N(3000)]

\* mutant: averagePrice is read without its default
extractPLData_NoPriceFallback(sd) ==
  IF ~Truthy(sd) THEN defaultData
  ELSE
    LET baseline       == Or(Get(sd, "baseline"), EmptyObj)
        revenue        == Or(Get(baseline, "revenue"), defaultData.monthlyRevenue)
        costs          == Or(Get(baseline, "costs"), EmptyObj)
        cogs           == Or(Get(costs, "cogs"), defaultData.monthlyCOGS)
        labor          == Or(Get(costs, "labor"), defaultData.monthlyLabor)
        overhead       == Or(Get(costs, "overhead"), defaultData.monthlyOverhead)
        profit         == JSub(JSub(JSub(revenue, cogs), labor), overhead)
        averagePrice   == Get(sd, "averagePrice")
        unitsSold      == JDiv(revenue, averagePrice)
        marketingSpend == Or(Get(sd, "marketingSpend"), defaultData.marketingSpend)
    IN  [monthlyRevenue  |-> revenue,
         monthlyCOGS     |-> cogs,
         monthlyLabor    |-> labor,
         monthlyOverhead |-> overhead,
         monthlyProfit   |-> profit,
         averagePrice    |-> averagePrice,
         unitsSold       |-> unitsSold,
         marketingSpend  |-> marketingSpend]

\* mutant: the default profit is returned instead of the computed one
extractPLData_DefaultProfit(sd) ==
  IF ~Truthy(sd) THEN defaultData
  ELSE
    LET baseline       == Or(Get(sd, "baseline"), EmptyObj)
        revenue        == Or(Get(baseline, "revenue"), defaultData.monthlyRevenue)
        costs          == Or(Get(baseline, "costs"), EmptyObj)
        cogs           == Or(Get(costs, "cogs"), defaultData.monthlyCOGS)
        labor          == Or(Get(costs, "labor"), defaultData.monthlyLabor)
        overhead       == Or(Get(costs, "overhead"), defaultData.monthlyOverhead)
        profit         == defaultData.monthlyProfit
        averagePrice   == Or(Get(sd, "averagePrice"), defaultData.averagePrice)
        unitsSold      == JDiv(revenue, averagePrice)
        marketingSpend == Or(Get(sd, "marketingSpend"), defaultData.marketingSpend)
    IN  [monthlyRevenue  |-> revenue,
         monthlyCOGS     |-> cogs,
         monthlyLabor    |-> labor,
         monthlyOverhead |-> overhead,
         monthlyProfit   |-> profit,
         averagePrice    |-> averagePrice,
         unitsSold       |-> unitsSold,
         marketingSpend  |-> marketingSpend]

extractPLData(sd) ==
  IF ~Truthy(sd) THEN defaultData
  ELSE
    LET baseline       == Or(Get(sd, "baseline"), EmptyObj)
        revenue        == Or(Get(baseline, "revenue"), defaultData.monthlyRevenue)
        costs          == Or(Get(baseline, "costs"), EmptyObj)
        cogs           == Or(Get(costs, "cogs"), defaultData.monthlyCOGS)
        labor          == Or(Get(costs, "labor"), defaultData.monthlyLabor)
        overhead       == Or(Get(costs, "overhead"), defaultData.monthlyOverhead)
        profit         == JSub(JSub(JSub(revenue, cogs), labor), overhead)
        averagePrice   == Or(Get(sd, "averagePrice"), defaultData.averagePrice)
        unitsSold      == JDiv(revenue, averagePrice)
        marketingSpend == Or(Get(sd, "marketingSpend"), defaultData.marketingSpend)
    IN  [monthlyRevenue  |-> revenue,
         monthlyCOGS     |-> cogs,
         monthlyLabor    |-> labor,
         monthlyOverhead |-> overhead,
         monthlyProfit   |-> profit,
         averagePrice    |-> averagePrice,
         unitsSold       |-> unitsSold,
         marketingSpend  |-> marketingSpend]

----------------------------------------------------------------------------
(* calculatePriceImpact *)

\* mutant: the price ratio instead of the relative change
priceChangePercentOf_Ratio(baseline, newPrice) ==
  JDiv(newPrice, baseline.averagePrice)

priceChangePercentOf(baseline, newPrice) ==
  JDiv(JSub(newPrice, baseline.averagePrice), baseline.averagePrice)

\* mutant: the two elasticities exchanged
demandChangePercentOf_Swapped(priceChangePercent) ==
  IF JGt(priceChangePercent, N(0))
  THEN JMul(JNeg(priceChangePercent), Num(8, 10))
  ELSE JMul(JNeg(priceChangePercent), Num(15, 10))

demandChangePercentOf(priceChangePercent) ==
  IF JGt(priceChangePercent, N(0))
  THEN JMul(JNeg(priceChangePercent), Num(15, 10))
  ELSE JMul(JNeg(priceChangePercent), Num(8, 10))

newUnitsOf(baseline, demandChangePercent) ==
  JMul(baseline.unitsSold, JAdd(N(1), demandChangePercent))

newCOGSOf(baseline, newRevenue) ==
  JMul(JDiv(newRevenue, baseline.monthlyRevenue), baseline.monthlyCOGS)

\* the returned record, given the locals computed before it
priceImpactResult(baseline, demandChangePercent, newUnits, newRevenue) ==
  [revenue      |-> newRevenue,
   cogs         |-> newCOGSOf(baseline, newRevenue),
   units        |-> newUnits,
   demandChange |-> demandChangePercent]

priceImpactAtUnits(baseline, newPrice, demandChangePercent, newUnits) ==
  priceImpactResult(baseline, demandChangePercent, newUnits, JMul(newPrice, newUnits))

priceImpactAtDemand(baseline, newPrice, demandChangePercent) ==
  priceImpactAtUnits(baseline, newPrice, demandChangePercent,
                     newUnitsOf(baseline, demandChangePercent))

\* line 76 reads baselineData.averagePrice outside any try block
calculatePriceImpactThrows(baseline) == PropertyReadThrows(baseline)

calculatePriceImpact(baseline, newPrice) ==
  priceImpactAtDemand(baseline, newPrice,
                      demandChangePercentOf(priceChangePercentOf(baseline, newPrice)))

----------------------------------------------------------------------------
(* calculateMarketingImpact *)

\* spend / 10000 * rate
tierBoost(spend, rate) == JMul(JDiv(spend, N(10000)), rate)

\* the third tier, entered above 20000 of additional spend
boostAfterThirdTier(additionalSpend, boost) ==
  IF JGt(additionalSpend, N(20000))
  THEN JAdd(boost, MathMin(tierBoost(JSub(additionalSpend, N(20000)), Num(5, 100)),
                           Num(20, 100)))
  ELSE boost

\* mutant: the second tier pays the first tier's rate
boostAfterSecondTier_FlatRate(additionalSpend, boost) ==
  IF JGt(additionalSpend, N(10000))
  THEN boostAfterThirdTier(
         additionalSpend,
         JAdd(boost, tierBoost(MathMin(JSub(additionalSpend, N(10000)), N(10000)),
                               Num(20, 100))))
  ELSE boost

\* the second tier, entered above 10000 of additional spend
boostAfterSecondTier(additionalSpend, boost) ==
  IF JGt(additionalSpend, N(10000))
  THEN boostAfterThirdTier(
         additionalSpend,
         JAdd(boost, tierBoost(MathMin(JSub(additionalSpend, N(10000)), N(10000)),
                               Num(10, 100))))
  ELSE boost

revenueBoostPercentOf(additionalSpend) ==
  IF JGt(additionalSpend, N(0))
  THEN boostAfterSecondTier(
         additionalSpend,
         JAdd(N(0), tierBoost(MathMin(additionalSpend, N(10000)), Num(20, 100))))
  ELSE N(0)

\* line 100 reads baselineData.marketingSpend outside any try block
calculateMarketingImpactThrows(baseline) == PropertyReadThrows(baseline)

calculateMarketingImpact(baseline, spend) ==
  LET additionalSpend == JSub(spend, baseline.marketingSpend)
  IN  MathMin(revenueBoostPercentOf(additionalSpend), Num(50, 100))

----------------------------------------------------------------------------
(* calculateLaborAutomationImpact *)

baselineAutomation == 10

\* mutant: tiers rounded to the nearest instead of down
automationTiersOf_Round(automationLevel) ==
  MathRound(JDiv(JSub(automationLevel, N(baselineAutomation)), N(10)))

\* mutant: tiers counted from 0% automation instead of the 10% baseline
automationTiersOf_FromZero(automationLevel) ==
  MathFloor(JDiv(automationLevel, N(10)))

automationTiersOf(automationLevel) ==
  MathFloor(JDiv(JSub(automationLevel, N(baselineAutomation)), N(10)))

\* 35% of cogs + labor + overhead
baselineLaborCostOf(baseline) ==
  JMul(JAdd(JAdd(baseline.monthlyCOGS, baseline.monthlyLabor), baseline.monthlyOverhead),
       Num(35, 100))

\* the returned record, given the locals computed before it
laborAutomationResult(laborCostReduction, automationInvestment) ==
  [laborCostReduction   |-> Or(laborCostReduction, N(0)),
   automationInvestment |-> Or(automationInvestment, N(0)),
   netImpact            |-> Or(JSub(laborCostReduction, automationInvestment), N(0))]

laborAutomationAtTiers(baseline, automationTiers) ==
  laborAutomationResult(
    JMul(JMul(automationTiers, Num(8, 100)), baselineLaborCostOf(baseline)),
    JMul(automationTiers, N(2000)))

\* the record the catch block returns
zeroLaborAutomationImpact ==
  [laborCostReduction |-> N(0), automationInvestment |-> N(0), netImpact |-> N(0)]

\* mutant: a null baseline is replaced by the default snapshot
calculateLaborAutomationImpact_DefaultsOnNull(baseline, automationLevel) ==
  laborAutomationAtTiers(IF PropertyReadThrows(baseline) THEN defaultData ELSE baseline,
                         automationTiersOf(automationLevel))

\* try { ... baselineData.monthlyCOGS ... } catch { zero record }
calculateLaborAutomationImpact(baseline, automationLevel) ==
  IF PropertyReadThrows(baseline)
  THEN zeroLaborAutomationImpact
  ELSE laborAutomationAtTiers(baseline, automationTiersOf(automationLevel))

----------------------------------------------------------------------------
(* calculateProductionEfficiencyImpact *)

baselineEfficiency == 100

efficiencyTiersOf(efficiencyLevel) ==
  MathFloor(JDiv(JSub(efficiencyLevel, N(baselineEfficiency)), N(10)))

\* mutant: the snapshot's own COGS instead of 60% of revenue
efficiencyBaselineCOGS_Actual(baseline) == baseline.monthlyCOGS

efficiencyBaselineCOGS(baseline) == JMul(baseline.monthlyRevenue, Num(60, 100))

\* the returned record, given the locals computed before it
productionEfficiencyResult(cogsReduction, revenueIncrease, implementationCost) ==
  [cogsReduction      |-> Or(cogsReduction, N(0)),
   revenueIncrease    |-> Or(revenueIncrease, N(0)),
   implementationCost |-> Or(implementationCost, N(0)),
   netImpact          |->
     Or(JSub(JAdd(cogsReduction, revenueIncrease), implementationCost), N(0))]

productionEfficiencyAtTiers(baseline, efficiencyTiers) ==
  productionEfficiencyResult(
    JMul(JMul(efficiencyTiers, Num(6, 100)), efficiencyBaselineCOGS(baseline)),
    JMul(JMul(efficiencyTiers, Num(5, 100)), baseline.monthlyRevenue),
    JMul(efficiencyTiers, N(1500)))

\* the record the catch block returns
zeroProductionEfficiencyImpact ==
  [cogsReduction |-> N(0), revenueIncrease |-> N(0), implementationCost |-> N(0),
   netImpact |-> N(0)]

\* try { ... baselineData.monthlyRevenue ... } catch { zero record }
calculateProductionEfficiencyImpact(baseline, efficiencyLevel) ==
  IF PropertyReadThrows(baseline)
  THEN zeroProductionEfficiencyImpact
  ELSE productionEfficiencyAtTiers(baseline, efficiencyTiersOf(efficiencyLevel))

----------------------------------------------------------------------------
(* calculateInventoryTurnoverImpact *)

baselineTurnover == 6

\* the returned record, given the locals computed before it
inventoryTurnoverResult(carryingCostReduction, wasteReduction, implementationCost, workingCapitalReduction) ==
  [carryingCostReduction   |-> Or(carryingCostReduction, N(0)),
   wasteReduction          |-> Or(wasteReduction, N(0)),
   implementationCost      |-> Or(implementationCost, N(0)),
   workingCapitalReduction |-> Or(workingCapitalReduction, N(0)),
   netImpact               |->
     Or(JSub(JAdd(carryingCostReduction, wasteReduction), implementationCost), N(0))]

\* mutant: the implementation tiers rounded to the nearest instead of down
inventoryTurnoverAtChange_Round(turnoverChange) ==
  inventoryTurnoverResult(
    JMul(turnoverChange, N(500)),
    JMul(turnoverChange, N(300)),
    JMul(MathRound(JDiv(turnoverChange, N(2))), N(800)),
    JMul(turnoverChange, Num(3, 100)))

inventoryTurnoverAtChange(turnoverChange) ==
  inventoryTurnoverResult(
    JMul(turnoverChange, N(500)),
    JMul(turnoverChange, N(300)),
    JMul(MathFloor(JDiv(turnoverChange, N(2))), N(800)),
    JMul(turnoverChange, Num(3, 100)))

\* the try block never reads the baseline and its arithmetic cannot throw, so
\* the catch block is never entered
calculateInventoryTurnoverImpact(baseline, turnoverRate) ==
  inventoryTurnoverAtChange(JSub(turnoverRate, N(baselineTurnover)))

----------------------------------------------------------------------------
(* generateForecastData *)

months == <<"Jan", "Feb", "Mar", "Apr", "May", "Jun",
            "Jul", "Aug", "Sep", "Oct", "Nov", "Dec">>

\* the seasonal factors, in hundredths
seasonalFactors == <<95, 92, 102, 105, 108, 112, 115, 110, 105, 100, 90, 85>>

\* 1 + 0.035 * (index / 12), index counted from 0
growthFactor(index) == JAdd(N(1), JMul(Num(35, 1000), JDiv(N(index), N(12))))

seasonalFactor(index) == Num(seasonalFactors[index + 1], 100)

confidenceRange == Num(15, 100)

\* the argument the callers pass as operationalFactors
OperationalFactors(automation, efficiency, turnover) ==
  [t |-> "obj",
   laborAutomationLevel  |-> automation,
   productionEfficiency  |-> efficiency,
   inventoryTurnoverRate |-> turnover]

\* x * growthFactor * seasonalFactor
inMonth(x, growth, seasonal) == JMul(JMul(x, growth), seasonal)

adjustedRevenueOf(priceImpact_, marketingBoost_, efficiencyImpact_, growth, seasonal) ==
  JAdd(inMonth(JMul(priceImpact_.revenue, JAdd(N(1), marketingBoost_)), growth, seasonal),
       inMonth(Or(Get(efficiencyImpact_, "revenueIncrease"), N(0)), growth, seasonal))

adjustedCOGSOf(priceImpact_, efficiencyImpact_, growth, seasonal) ==
  JSub(inMonth(priceImpact_.cogs, growth, seasonal),
       inMonth(Or(Get(efficiencyImpact_, "cogsReduction"), N(0)), growth, seasonal))

\* mutant: the marketing spend is not deducted
adjustedProfitOf_NoMarketing(baseline, marketing, adjustedRevenue, adjustedCOGS, automationImpact_, inventoryImpact_) ==
  JAdd(JAdd(JSub(JSub(JSub(adjustedRevenue, adjustedCOGS),
                       baseline.monthlyLabor),
                  baseline.monthlyOverhead),
            Or(Get(automationImpact_, "netImpact"), N(0))),
       Or(Get(inventoryImpact_, "netImpact"), N(0)))

adjustedProfitOf(baseline, marketing, adjustedRevenue, adjustedCOGS, automationImpact_, inventoryImpact_) ==
  JAdd(JAdd(JSub(JSub(JSub(JSub(adjustedRevenue, adjustedCOGS),
                            baseline.monthlyLabor),
                       baseline.monthlyOverhead),
                  marketing),
            Or(Get(automationImpact_, "netImpact"), N(0))),
       Or(Get(inventoryImpact_, "netImpact"), N(0)))

\* mutant: the original series reported from the adjusted profit
forecastResult_AdjustedAsOriginal(month, originalProfit, adjustedProfit) ==
  [month              |-> month,
   originalProfit     |-> MathRound(Or(adjustedProfit, N(0))),
   adjustedProfit     |-> MathRound(Or(adjustedProfit, N(0))),
   originalLowerBound |->
     MathRound(JMul(Or(adjustedProfit, N(0)), JSub(N(1), confidenceRange))),
   originalUpperBound |->
     MathRound(JMul(Or(adjustedProfit, N(0)), JAdd(N(1), confidenceRange))),
   adjustedLowerBound |->
     MathRound(JMul(Or(adjustedProfit, N(0)), JSub(N(1), confidenceRange))),
   adjustedUpperBound |->
     MathRound(JMul(Or(adjustedProfit, N(0)), JAdd(N(1), confidenceRange)))]

\* mutant: the bounds taken from the rounded profits
forecastResult_BoundsOfRounded(month, originalProfit, adjustedProfit) ==
  [month              |-> month,
   originalProfit     |-> MathRound(Or(originalProfit, N(0))),
   adjustedProfit     |-> MathRound(Or(adjustedProfit, N(0))),
   originalLowerBound |->
     MathRound(JMul(MathRound(Or(originalProfit, N(0))), JSub(N(1), confidenceRange))),
   originalUpperBound |->
     MathRound(JMul(MathRound(Or(originalProfit, N(0))), JAdd(N(1), confidenceRange))),
   adjustedLowerBound |->
     MathRound(JMul(MathRound(Or(adjustedProfit, N(0))), JSub(N(1), confidenceRange))),
   adjustedUpperBound |->
     MathRound(JMul(MathRound(Or(adjustedProfit, N(0))), JAdd(N(1), confidenceRange)))]

\* the returned point, given the two unrounded profits
forecastResult(month, originalProfit, adjustedProfit) ==
  [month              |-> month,
   originalProfit     |-> MathRound(Or(originalProfit, N(0))),
   adjustedProfit     |-> MathRound(Or(adjustedProfit, N(0))),
   originalLowerBound |->
     MathRound(JMul(Or(originalProfit, N(0)), JSub(N(1), confidenceRange))),
   originalUpperBound |->
     MathRound(JMul(Or(originalProfit, N(0)), JAdd(N(1), confidenceRange))),
   adjustedLowerBound |->
     MathRound(JMul(Or(adjustedProfit, N(0)), JSub(N(1), confidenceRange))),
   adjustedUpperBound |->
     MathRound(JMul(Or(adjustedProfit, N(0)), JAdd(N(1), confidenceRange)))]

forecastPointIn(baseline, marketing, priceImpact_, marketingBoost_, automationImpact_, efficiencyImpact_, inventoryImpact_, index, growth, seasonal) ==
  forecastResult(
    months[index + 1],
    inMonth(baseline.monthlyProfit, growth, seasonal),
    adjustedProfitOf(
      baseline, marketing,
      adjustedRevenueOf(priceImpact_, marketingBoost_, efficiencyImpact_, growth, seasonal),
      adjustedCOGSOf(priceImpact_, efficiencyImpact_, growth, seasonal),
      automationImpact_, inventoryImpact_))

forecastPoint(baseline, marketing, priceImpact_, marketingBoost_, automationImpact_, efficiencyImpact_, inventoryImpact_, index) ==
  forecastPointIn(baseline, marketing, priceImpact_, marketingBoost_, automationImpact_,
                  efficiencyImpact_, inventoryImpact_, index,
                  growthFactor(index), seasonalFactor(index))

\* months.map over the impacts computed before it
forecastSeries(baseline, marketing, priceImpact_, marketingBoost_, automationImpact_, efficiencyImpact_, inventoryImpact_) ==
  [i \in 1..Len(months) |->
     forecastPoint(baseline, marketing, priceImpact_, marketingBoost_,
                   automationImpact_, efficiencyImpact_, inventoryImpact_, i - 1)]

\* the TypeError of calculatePriceImpact (line 241) is not caught
generateForecastDataThrows(baseline) == calculatePriceImpactThrows(baseline)

generateForecastData(baseline, price, marketing, factors) ==
  forecastSeries(
    baseline, marketing,
    calculatePriceImpact(baseline, price),
    calculateMarketingImpact(baseline, marketing),
    IF Truthy(factors)
    THEN [t |-> "obj"] @@
         calculateLaborAutomationImpact(baseline, Get(factors, "laborAutomationLevel"))
    ELSE [t |-> "obj", netImpact |-> N(0)],
    IF Truthy(factors)
    THEN [t |-> "obj"] @@
         calculateProductionEfficiencyImpact(baseline, Get(factors, "productionEfficiency"))
    ELSE [t |-> "obj", netImpact |-> N(0), revenueIncrease |-> N(0),
          cogsReduction |-> N(0)],
    IF Truthy(factors)
    THEN [t |-> "obj"] @@
         calculateInventoryTurnoverImpact(baseline, Get(factors, "inventoryTurnoverRate"))
    ELSE [t |-> "obj", netImpact |-> N(0)])

----------------------------------------------------------------------------
(* calculateSummaryMetrics *)

\* the operational terms added to totalInvestment when operationalFactors is given
operationalInvestment(totalInvestment, automationImpact_, efficiencyImpact_, inventoryImpact_) ==
  JAdd(JAdd(JAdd(totalInvestment,
                 JMul(Or(automationImpact_.automationInvestment, N(0)), N(12))),
            JMul(Or(efficiencyImpact_.implementationCost, N(0)), N(12))),
       JMul(Or(inventoryImpact_.implementationCost, N(0)), N(12)))

totalInvestmentWith(baseline, factors, marketingInvestment) ==
  IF Truthy(factors)
  THEN operationalInvestment(
         marketingInvestment,
         calculateLaborAutomationImpact(baseline, Get(factors, "laborAutomationLevel")),
         calculateProductionEfficiencyImpact(baseline, Get(factors, "productionEfficiency")),
         calculateInventoryTurnoverImpact(baseline, Get(factors, "inventoryTurnoverRate")))
  ELSE marketingInvestment

totalInvestmentOf(baseline, marketing, factors) ==
  totalInvestmentWith(baseline, factors,
                      JMul(JSub(marketing, baseline.marketingSpend), N(12)))

\* mutant: the ratio is also taken for a negative investment
roiOf_AlsoNegative(annualDifference, totalInvestment) ==
  IF JGt(totalInvestment, N(0)) \/ JGt(N(0), totalInvestment)
  THEN JMul(JDiv(annualDifference, totalInvestment), N(100))
  ELSE N(0)

roiOf(annualDifference, totalInvestment) ==
  IF JGt(totalInvestment, N(0))
  THEN JMul(JDiv(annualDifference, totalInvestment), N(100))
  ELSE N(0)

\* the returned record, given the locals computed before it
summaryResult(currentProfit, newProfit, monthlyDifference, annualDifference, totalInvestment) ==
  [currentProfit     |-> currentProfit,
   newProfit         |-> newProfit,
   monthlyDifference |-> monthlyDifference,
   annualDifference  |-> annualDifference,
   roi               |->
     JDiv(MathRound(JMul(roiOf(annualDifference, totalInvestment), N(10))), N(10)),
   totalInvestment   |-> MathRound(totalInvestment)]

summaryAtDifference(currentProfit, newProfit, monthlyDifference, totalInvestment) ==
  summaryResult(currentProfit, newProfit, monthlyDifference,
                JMul(monthlyDifference, N(12)), totalInvestment)

summaryAtProfit(currentProfit, newProfit, totalInvestment) ==
  summaryAtDifference(currentProfit, newProfit, JSub(newProfit, currentProfit),
                      totalInvestment)

\* line 299 reads baselineData.monthlyProfit outside any try block
calculateSummaryMetricsThrows(baseline) == PropertyReadThrows(baseline)

\* mutant: newProfit taken from the last forecast point
calculateSummaryMetrics_LastPoint(baseline, forecast, marketing, factors) ==
  summaryAtProfit(
    baseline.monthlyProfit,
    Or(IF Len(forecast) > 0 THEN forecast[Len(forecast)].adjustedProfit ELSE Undef, N(0)),
    totalInvestmentOf(baseline, marketing, factors))

calculateSummaryMetrics(baseline, forecast, marketing, factors) ==
  summaryAtProfit(
    baseline.monthlyProfit,
    Or(IF Len(forecast) > 0 THEN forecast[1].adjustedProfit ELSE Undef, N(0)),
    totalInvestmentOf(baseline, marketing, factors))

----------------------------------------------------------------------------
(* Inputs *)

\* lever positions explored: tiers above the baseline position
MaxAutomationTiers == 2

MaxEfficiencyTiers == 1

MaxTurnoverChange == 2

AutomationLevels ==
  {N(0), N(5), N(11), N(15), N(19)} \cup
  {N(baselineAutomation + 10 * k) : k \in 0..MaxAutomationTiers}

EfficiencyLevels ==
  {N(105)} \cup {N(baselineEfficiency + 10 * k) : k \in 0..MaxEfficiencyTiers}

TurnoverRates == {N(baselineTurnover + k) : k \in 0..MaxTurnoverChange}

\* an arbitrarily large spend: 1,000,000 above the default baseline's
LargeMarketingValue == N(1003000)

PriceValues == {N(40), N(50), N(60)}

MarketingValues ==
  {N(0), N(3000), N(8000), N(13000), N(18000), N(23000), N(43000), N(73000),
   LargeMarketingValue}



LeverMarketingValues == {N(3000), N(13000)}

\* a backend payload: the fields extractPLData reads; an absent field is Undef
Payload(revenue, cogs, labor, overhead, price, marketing) ==
  [t |-> "obj",
   baseline |-> [t |-> "obj", revenue |-> revenue,
                 costs |-> [t |-> "obj", cogs |-> cogs, labor |-> labor,
                            overhead |-> overhead]],
   averagePrice   |-> price,
   marketingSpend |-> marketing]

SweepPayloads ==
  {Payload(r, c, l, o, p, m) :
     r \in {Undef, N(0), N(1000), N(120000), Str},
     c \in {Undef, N(50000), Str},
     l \in {Undef, N(0), N(30000)},
     o \in {Undef, N(10000)},
     p \in {Undef, N(0), N(40), Str},
     m \in {Undef, N(5000)}}
  \cup {Null,
        [t |-> "obj"],
        [t |-> "obj", baseline |-> Str, averagePrice |-> N(40)],
        [t |-> "obj", baseline |-> [t |-> "obj", revenue |-> N(120000), costs |-> Str]]}

LeverPayloads ==
  {Undef, Payload(N(128000), N(64000), N(30000), N(10000), N(40), N(5000))}

NoResult == Undef

----------------------------------------------------------------------------
(* The calculation pipeline: one action per function of simulationUtils.ts *)

\* every payload at the neutral lever positions, without operationalFactors
InitPayloadSweep ==
  /\ simulationData \in SweepPayloads \cup LeverPayloads
  /\ priceValue = N(50)
  /\ marketingValue = N(3000)
  /\ withFactors = FALSE
  /\ laborAutomation = N(baselineAutomation)
  /\ productionEfficiency = N(baselineEfficiency)
  /\ inventoryTurnover = N(baselineTurnover)

\* every price and marketing spend at the neutral lever positions, with and
\* without operationalFactors
InitMarketSweep ==
  /\ simulationData \in LeverPayloads
  /\ priceValue \in PriceValues
  /\ marketingValue \in MarketingValues
  /\ withFactors \in BOOLEAN
  /\ laborAutomation = N(baselineAutomation)
  /\ productionEfficiency = N(baselineEfficiency)
  /\ inventoryTurnover = N(baselineTurnover)

\* every position of the three operational levers
InitLeverSweep ==
  /\ simulationData \in LeverPayloads
  /\ priceValue \in PriceValues
  /\ marketingValue \in LeverMarketingValues
  /\ withFactors = TRUE
  /\ laborAutomation \in AutomationLevels
  /\ productionEfficiency \in EfficiencyLevels
  /\ inventoryTurnover \in TurnoverRates

\* the session store before any call: no entry, no listener
Listeners == {"sandbox", "other"}

NoCall == [op |-> "none", arg |-> Undef, ok |-> TRUE]

NotInvoked == [l \in Listeners |-> 0]

NothingObserved == [l \in Listeners |-> Undef]

StoreIdle ==
  /\ localStorage = Null
  /\ now = 0
  /\ listeners = {}
  /\ removed = {}
  /\ invoked = NotInvoked
  /\ observed = NothingObserved
  /\ called = NoCall
  /\ returned = Undef
  /\ before = Null

\* the slider values AdjustmentSliders starts with
defaultValues ==
  [laborAutomation |-> 50, qualityAutomation |-> 30, inventoryAutomation |-> 40,
   implementationTimeline |-> 6]

NoRequest == [sent |-> FALSE]

\* AdjustmentSliders not mounted
SlidersIdle ==
  /\ values = defaultValues
  /\ props = 0
  /\ timeouts = {}
  /\ clock = 0
  /\ lastChange = 0
  /\ sentSinceChange = 0
  /\ lastRequest = NoRequest

\* BusinessSimulation not mounted
WizardIdle ==
  /\ currentStep = "landing"
  /\ answered = 0
  /\ requests = {}
  /\ issued = 0
  /\ applied = 0
  /\ completion = "idle"
  /\ finalOutcome = "none"
  /\ resultsTimer = -1

Init ==
  /\ StoreIdle
  /\ SlidersIdle
  /\ WizardIdle
  /\ InitPayloadSweep \/ InitMarketSweep \/ InitLeverSweep
  /\ pc = "payload"
  /\ baselineData = NoResult
  /\ priceImpact = NoResult
  /\ marketingBoost = NoResult
  /\ automationImpact = NoResult
  /\ efficiencyImpact = NoResult
  /\ inventoryImpact = NoResult
  /\ forecastData = <<>>
  /\ summaryMetrics = NoResult

operationalFactors ==
  IF withFactors
  THEN OperationalFactors(laborAutomation, productionEfficiency, inventoryTurnover)
  ELSE Undef

ExtractPLData ==
  /\ pc = "payload"
  /\ baselineData' = extractPLData(simulationData)
  /\ pc' = "baseline"
  /\ UNCHANGED <<session, sliders, wizard, inputs, priceImpact, marketingBoost, automationImpact,
                 efficiencyImpact, inventoryImpact, forecastData, summaryMetrics>>

\* a call whose argument makes a property read throw leaves no result: the
\* TypeError reaches the caller, which is recorded as pc = "aborted"
CalculatePriceImpact ==
  /\ pc = "baseline"
  /\ IF calculatePriceImpactThrows(baselineData)
     THEN pc' = "aborted" /\ UNCHANGED priceImpact
     ELSE /\ priceImpact' = calculatePriceImpact(baselineData, priceValue)
          /\ pc' = "price"
  /\ UNCHANGED <<session, sliders, wizard, inputs, baselineData, marketingBoost, automationImpact,
                 efficiencyImpact, inventoryImpact, forecastData, summaryMetrics>>

CalculateMarketingImpact ==
  /\ pc = "price"
  /\ IF calculateMarketingImpactThrows(baselineData)
     THEN pc' = "aborted" /\ UNCHANGED marketingBoost
     ELSE /\ marketingBoost' = calculateMarketingImpact(baselineData, marketingValue)
          /\ pc' = "marketing"
  /\ UNCHANGED <<session, sliders, wizard, inputs, baselineData, priceImpact, automationImpact,
                 efficiencyImpact, inventoryImpact, forecastData, summaryMetrics>>

CalculateLaborAutomationImpact ==
  /\ pc = "marketing"
  /\ automationImpact' = calculateLaborAutomationImpact(baselineData, laborAutomation)
  /\ pc' = "automation"
  /\ UNCHANGED <<session, sliders, wizard, inputs, baselineData, priceImpact, marketingBoost,
                 efficiencyImpact, inventoryImpact, forecastData, summaryMetrics>>

CalculateProductionEfficiencyImpact ==
  /\ pc = "automation"
  /\ efficiencyImpact' =
       calculateProductionEfficiencyImpact(baselineData, productionEfficiency)
  /\ pc' = "efficiency"
  /\ UNCHANGED <<session, sliders, wizard, inputs, baselineData, priceImpact, marketingBoost,
                 automationImpact, inventoryImpact, forecastData, summaryMetrics>>

CalculateInventoryTurnoverImpact ==
  /\ pc = "efficiency"
  /\ inventoryImpact' = calculateInventoryTurnoverImpact(baselineData, inventoryTurnover)
  /\ pc' = "inventory"
  /\ UNCHANGED <<session, sliders, wizard, inputs, baselineData, priceImpact, marketingBoost,
                 automationImpact, efficiencyImpact, forecastData, summaryMetrics>>

GenerateForecastData ==
  /\ pc = "inventory"
  /\ IF generateForecastDataThrows(baselineData)
     THEN pc' = "aborted" /\ UNCHANGED forecastData
     ELSE /\ forecastData' =
               generateForecastData(baselineData, priceValue, marketingValue,
                                    operationalFactors)
          /\ pc' = "forecast"
  /\ UNCHANGED <<session, sliders, wizard, inputs, baselineData, priceImpact, marketingBoost,
                 automationImpact, efficiencyImpact, inventoryImpact, summaryMetrics>>

CalculateSummaryMetrics ==
  /\ pc = "forecast"
  /\ IF calculateSummaryMetricsThrows(baselineData)
     THEN pc' = "aborted" /\ UNCHANGED summaryMetrics
     ELSE /\ summaryMetrics' =
               calculateSummaryMetrics(baselineData, forecastData, marketingValue,
                                       operationalFactors)
          /\ pc' = "summary"
  /\ UNCHANGED <<session, sliders, wizard, inputs, baselineData, priceImpact, marketingBoost,
                 automationImpact, efficiencyImpact, inventoryImpact, forecastData>>

Next ==
  \/ ExtractPLData
  \/ CalculatePriceImpact
  \/ CalculateMarketingImpact
  \/ CalculateLaborAutomationImpact
  \/ CalculateProductionEfficiencyImpact
  \/ CalculateInventoryTurnoverImpact
  \/ GenerateForecastData
  \/ CalculateSummaryMetrics

Spec == Init /\ [][Next]_vars

----------------------------------------------------------------------------
(* Sandbox: the investment breakdown shown beside the summary *)

investmentBreakdownResult(automationCost, efficiencyCost, inventoryCost, marketingCost) ==
  [laborAutomationCost |-> automationCost,
   productionEfficiencyCost |-> efficiencyCost,
   inventorySystemCost |-> inventoryCost,
   marketingSpendCost |-> marketingCost,
   totalMonthlyCost |->
     JAdd(JAdd(JAdd(automationCost, efficiencyCost), inventoryCost), marketingCost)]

investmentBreakdownOf(baseline, automation, efficiency, turnover, marketing) ==
  investmentBreakdownResult(
    Or(calculateLaborAutomationImpact(baseline, automation).automationInvestment, N(0)),
    Or(calculateProductionEfficiencyImpact(baseline, efficiency).implementationCost, N(0)),
    Or(calculateInventoryTurnoverImpact(baseline, turnover).implementationCost, N(0)),
    MathMax(JSub(marketing, baseline.marketingSpend), N(0)))

\* the useMemo value of the current render
investmentBreakdown ==
  investmentBreakdownOf(baselineData, laborAutomation, productionEfficiency,
                        inventoryTurnover, marketingValue)

----------------------------------------------------------------------------
(* The three lever calculators called directly, on any baseline argument *)

\* baseline arguments of a direct call: null, undefined and two snapshots
DirectBaselines ==
  {Null, Undef, defaultData,
   extractPLData(Payload(N(128000), N(64000), N(30000), N(10000), N(40), N(5000)))}

InitLevers ==
  /\ StoreIdle
  /\ SlidersIdle
  /\ WizardIdle
  /\ simulationData = Undef
  /\ priceValue = N(50)
  /\ marketingValue = N(3000)
  /\ withFactors = TRUE
  /\ laborAutomation \in AutomationLevels
  /\ productionEfficiency \in EfficiencyLevels
  /\ inventoryTurnover \in TurnoverRates
  /\ pc = "marketing"
  /\ baselineData \in DirectBaselines
  /\ priceImpact = NoResult
  /\ marketingBoost = NoResult
  /\ automationImpact = NoResult
  /\ efficiencyImpact = NoResult
  /\ inventoryImpact = NoResult
  /\ forecastData = <<>>
  /\ summaryMetrics = NoResult

NextLevers ==
  \/ CalculateLaborAutomationImpact
  \/ CalculateProductionEfficiencyImpact
  \/ CalculateInventoryTurnoverImpact

SpecLevers == InitLevers /\ [][NextLevers]_vars

----------------------------------------------------------------------------
(* Every function of the calculation core called directly, on any baseline *)

\* the position of the direct call: before calculatePriceImpact,
\* calculateMarketingImpact, the lever calculators, generateForecastData or
\* calculateSummaryMetrics (the latter with an empty forecast argument)
DirectCalls == {"baseline", "price", "marketing", "inventory", "forecast"}

InitCore ==
  /\ StoreIdle
  /\ SlidersIdle
  /\ WizardIdle
  /\ simulationData = Undef
  /\ priceValue \in PriceValues
  /\ marketingValue \in LeverMarketingValues
  /\ withFactors \in BOOLEAN
  /\ laborAutomation \in {N(10), N(30)}
  /\ productionEfficiency \in {N(100), N(110)}
  /\ inventoryTurnover \in {N(6), N(8)}
  /\ pc \in DirectCalls
  /\ baselineData \in DirectBaselines
  /\ priceImpact = NoResult
  /\ marketingBoost = NoResult
  /\ automationImpact = NoResult
  /\ efficiencyImpact = NoResult
  /\ inventoryImpact = NoResult
  /\ forecastData = <<>>
  /\ summaryMetrics = NoResult

NextCore ==
  \/ CalculatePriceImpact
  \/ CalculateMarketingImpact
  \/ CalculateLaborAutomationImpact
  \/ CalculateProductionEfficiencyImpact
  \/ CalculateInventoryTurnoverImpact
  \/ GenerateForecastData
  \/ CalculateSummaryMetrics

SpecCore == InitCore /\ [][NextCore]_vars

----------------------------------------------------------------------------
(* businessSimulationState: the session store kept in localStorage *)

STORAGE_EXPIRY_HOURS == 24

\* the clock advances in ticks of TickHours hours, up to MaxTime ticks
TickHours == 12

MaxTime == 3

\* Date.now() at clock value time, in milliseconds
DateNow(time) == N(time * TickHours * 60 * 60 * 1000)

\* new Date().toISOString() at clock value time
toISOString(time) == [t |-> "str", date |-> time]

\* new Date(s).getTime(): NaN unless s is a date string
getTime(s) == IF s.t = "str" /\ "date" \in DOMAIN s THEN DateNow(s.date) ELSE NaN

\* {...a, ...b}
Spread(a, b) == [f \in DOMAIN a \cup DOMAIN b |-> IF f \in DOMAIN b THEN b[f] ELSE a[f]]

\* Object.keys(o)
ObjectKeys(o) == DOMAIN o \ {"t"}

\* JSON.stringify: a property holding undefined is left out, NaN and the
\* infinities become null; the text is represented by the tree it spells
RECURSIVE JSONTree(_)
JSONTree(v) ==
  IF v.t = "obj"
  THEN [f \in {g \in DOMAIN v : g = "t" \/ v[g].t # "undef"} |->
          IF f = "t" THEN "obj" ELSE JSONTree(v[f])]
  ELSE IF v.t \in {"nan", "inf"} THEN Null ELSE v

JSONStringify(v) == [t |-> "str", json |-> JSONTree(v)]

JSONParse(text) == text.json

getEmptyState(time) ==
  [t |-> "obj", companyData |-> Null, simulationData |-> Null,
   questionnaireData |-> Null, fullReportData |-> Null,
   lastUpdated |-> toISOString(time)]

\* mutant: a state is expired as soon as it is 24 hours old
isStateExpired_AtBoundary(lastUpdated, time) ==
  ~JGt(N(STORAGE_EXPIRY_HOURS * 60 * 60 * 1000),
       JSub(DateNow(time), getTime(lastUpdated)))

isStateExpired(lastUpdated, time) ==
  JGt(JSub(DateNow(time), getTime(lastUpdated)),
      N(STORAGE_EXPIRY_HOURS * 60 * 60 * 1000))

\* getState finds an entry and the entry has expired
getStateExpired(entry, time) ==
  Truthy(entry) /\ isStateExpired(Get(JSONParse(entry), "lastUpdated"), time)

\* the value getState returns when localStorage holds entry
getState(entry, time) ==
  IF ~Truthy(entry) \/ getStateExpired(entry, time)
  THEN getEmptyState(time)
  ELSE JSONParse(entry)

\* the entry getState leaves: clearState removes an expired one
clearedByGetState(entry, time) == IF getStateExpired(entry, time) THEN Null ELSE entry

\* the entry saveState writes
newStateEntry(entry, state, time) ==
  JSONStringify(Spread(Spread(getState(entry, time), state),
                       [lastUpdated |-> toISOString(time)]))

\* the members of the listener set in one forEach: each is called once
forEachListener(ls, all) == [l \in all |-> IF l \in ls THEN 1 ELSE 0]

\* mutant: the listeners are notified before the entry is written
listenerReads_BeforeWrite(entryBefore, entryAfter, time) == getState(entryBefore, time)

\* what the Sandbox listener reads with getState when saveState calls it
listenerReads(entryBefore, entryAfter, time) == getState(entryAfter, time)

questionnaireDataOf(answers, questionCount, time) ==
  [t |-> "obj", answers |-> answers, questionCount |-> questionCount,
   completedAt |-> IF ~NumLt(ToNumber(questionCount), N(12))
                   THEN toISOString(time) ELSE Undef]

\* mutant: clearing the questionnaire also forgets the company
clearedFields_WithCompany ==
  [t |-> "obj", questionnaireData |-> Null, simulationData |-> Null,
   fullReportData |-> Null, companyData |-> Null]

\* the partial state clearQuestionnaireData saves
clearedFields ==
  [t |-> "obj", questionnaireData |-> Null, simulationData |-> Null,
   fullReportData |-> Null]

isQuestionnaireCompleted(entry, time) ==
  Get(Get(getState(entry, time), "questionnaireData"), "completedAt") # Undef

hasSimulationData(entry, time) ==
  Get(getState(entry, time), "simulationData") \notin {Null, Undef}

\* the steps after the company check, on the state first read and the entry
\* that read left
stepWithCompany(state, entry, time) ==
  IF ~Truthy(Get(state, "questionnaireData"))
     \/ ObjectKeys(state.questionnaireData.answers) = {}
  THEN "upload"
  ELSE IF ~isQuestionnaireCompleted(entry, time) THEN "questionnaire"
  ELSE IF hasSimulationData(entry, time) THEN "results"
  ELSE "processing"

\* mutant: a company without answers is sent to the setup step
getCurrentStepOf_Setup(state, entry, time) ==
  IF ~Truthy(Get(state, "companyData")) THEN "landing"
  ELSE IF stepWithCompany(state, entry, time) = "upload" THEN "setup"
  ELSE stepWithCompany(state, entry, time)

getCurrentStepOf(state, entry, time) ==
  IF ~Truthy(Get(state, "companyData")) THEN "landing"
  ELSE stepWithCompany(state, entry, time)

getCurrentStep(entry, time) ==
  getCurrentStepOf(getState(entry, time), clearedByGetState(entry, time), time)

----------------------------------------------------------------------------
(* The session store as a state machine *)

\* the string with the given text
Text(s) == [t |-> "str", text |-> s]

Companies == {[t |-> "obj", id |-> Text("c1")], [t |-> "obj", id |-> Text("c2")]}

Simulations == {[t |-> "obj", simulation_id |-> N(1)]}

Reports == {[t |-> "obj", report |-> Str]}

QuestionIds == <<"q1", "q2", "q3", "q4", "q5", "q6", "q7", "q8", "q9", "q10", "q11", "q12">>

\* the answers object after k questions
Answers(k) ==
  [f \in {"t"} \cup {QuestionIds[i] : i \in 1..k} |-> IF f = "t" THEN "obj" ELSE Str]

StoredAnswers == {Answers(0), Answers(1)}

StoredCounts == {N(1), N(12)}

PipelineIdle ==
  /\ simulationData = Undef
  /\ priceValue = N(50)
  /\ marketingValue = N(3000)
  /\ withFactors = TRUE
  /\ laborAutomation = N(baselineAutomation)
  /\ productionEfficiency = N(baselineEfficiency)
  /\ inventoryTurnover = N(baselineTurnover)
  /\ pc = "payload"
  /\ baselineData = NoResult
  /\ priceImpact = NoResult
  /\ marketingBoost = NoResult
  /\ automationImpact = NoResult
  /\ efficiencyImpact = NoResult
  /\ inventoryImpact = NoResult
  /\ forecastData = <<>>
  /\ summaryMetrics = NoResult

InitStore == StoreIdle /\ PipelineIdle /\ SlidersIdle /\ WizardIdle

\* the record of the last call is of a call made at the present time and
\* with the present listeners: every other step forgets it
ForgetCall ==
  /\ called' = NoCall
  /\ returned' = Undef
  /\ before' = Null
  /\ invoked' = NotInvoked
  /\ observed' = NothingObserved

Tick ==
  /\ now < MaxTime
  /\ now' = now + 1
  /\ ForgetCall
  /\ UNCHANGED <<pipeline, sliders, wizard, localStorage, listeners, removed>>

GetState ==
  /\ before' = localStorage
  /\ called' = [op |-> "getState", arg |-> Undef, ok |-> TRUE]
  /\ returned' = getState(localStorage, now)
  /\ localStorage' = clearedByGetState(localStorage, now)
  /\ invoked' = NotInvoked
  /\ observed' = NothingObserved
  /\ UNCHANGED <<pipeline, sliders, wizard, now, listeners, removed>>

GetCurrentStep ==
  /\ before' = localStorage
  /\ called' = [op |-> "getCurrentStep", arg |-> Undef, ok |-> TRUE]
  /\ returned' = getCurrentStep(localStorage, now)
  /\ localStorage' = clearedByGetState(localStorage, now)
  /\ invoked' = NotInvoked
  /\ observed' = NothingObserved
  /\ UNCHANGED <<pipeline, sliders, wizard, now, listeners, removed>>

\* saveState(state) called by op: setItem either writes the new entry and the
\* listeners are called, or throws and the catch block swallows the error
SaveState(op, arg, state, written) ==
  /\ before' = localStorage
  /\ called' = [op |-> op, arg |-> arg, ok |-> written]
  /\ returned' = Undef
  /\ localStorage' = IF written
                     THEN newStateEntry(localStorage, state, now)
                     ELSE clearedByGetState(localStorage, now)
  /\ invoked' = IF written THEN forEachListener(listeners, Listeners) ELSE NotInvoked
  /\ observed' = IF written
                 THEN [l \in Listeners |->
                         IF l \in listeners
                         THEN listenerReads(localStorage, localStorage', now)
                         ELSE Undef]
                 ELSE NothingObserved
  /\ UNCHANGED <<pipeline, sliders, wizard, now, listeners, removed>>

UpdateCompanyData ==
  \E companyData \in Companies, written \in BOOLEAN :
    SaveState("updateCompanyData", companyData,
              [t |-> "obj", companyData |-> companyData], written)

UpdateSimulationData ==
  \E data \in Simulations, written \in BOOLEAN :
    SaveState("updateSimulationData", data,
              [t |-> "obj", simulationData |-> data], written)

UpdateQuestionnaireData ==
  \E answers \in StoredAnswers, questionCount \in StoredCounts, written \in BOOLEAN :
    SaveState("updateQuestionnaireData",
              questionnaireDataOf(answers, questionCount, now),
              [t |-> "obj",
               questionnaireData |-> questionnaireDataOf(answers, questionCount, now)],
              written)

UpdateFullReportData ==
  \E fullReportData \in Reports, written \in BOOLEAN :
    SaveState("updateFullReportData", fullReportData,
              [t |-> "obj", fullReportData |-> fullReportData], written)

ClearQuestionnaireData ==
  \E written \in BOOLEAN :
    SaveState("clearQuestionnaireData", Null, clearedFields, written)

AddListener ==
  /\ \E l \in Listeners :
       /\ listeners' = listeners \cup {l}
       /\ removed' = removed \ {l}
  /\ ForgetCall
  /\ UNCHANGED <<pipeline, sliders, wizard, localStorage, now>>

\* the cleanup function addListener returned
Cleanup ==
  /\ \E l \in listeners :
       /\ listeners' = listeners \ {l}
       /\ removed' = removed \cup {l}
  /\ ForgetCall
  /\ UNCHANGED <<pipeline, sliders, wizard, localStorage, now>>

RemoveListener ==
  /\ \E l \in Listeners :
       /\ listeners' = listeners \ {l}
       /\ removed' = IF l \in listeners THEN removed \cup {l} ELSE removed
  /\ ForgetCall
  /\ UNCHANGED <<pipeline, sliders, wizard, localStorage, now>>

NextStore ==
  \/ Tick
  \/ GetState
  \/ GetCurrentStep
  \/ UpdateCompanyData
  \/ UpdateSimulationData
  \/ UpdateQuestionnaireData
  \/ UpdateFullReportData
  \/ ClearQuestionnaireData

SpecStore == InitStore /\ [][NextStore]_vars

\* the store with components registering and removing listeners
NextListeners ==
  \/ Tick
  \/ UpdateSimulationData
  \/ ClearQuestionnaireData
  \/ AddListener
  \/ Cleanup
  \/ RemoveListener

SpecListeners == InitStore /\ [][NextListeners]_vars

----------------------------------------------------------------------------
(* AdjustmentSliders: the debounced adjust request *)

\* the wait passed to debounce
DebounceWait == 500

\* the clock advances in ticks of TickMs milliseconds, up to MaxClock
TickMs == 250

MaxClock == 1500

\* the number of renders that bring a new simulationId or onUpdate
MaxRenders == 2

\* the sliders moved, and the positions they are moved to
SliderKeys == {"laborAutomation", "implementationTimeline"}

SliderPositions(key) == IF key = "laborAutomation" THEN {50, 55} ELSE {6, 7}

\* setTimeout(() => func(...args), wait) by the debounced function of instance
timeoutOf(instance, args, time) == [instance |-> instance, args |-> args, due |-> time + DebounceWait]

\* one call of a debounced function: clearTimeout on the timer of that very
\* function, then setTimeout
debouncedCall(pending, instance, args, time) ==
  {t \in pending : t.instance # instance} \cup {timeoutOf(instance, args, time)}

\* the component mounted: the first effect has called debouncedUpdate(values)
InitSliders ==
  /\ StoreIdle
  /\ PipelineIdle
  /\ WizardIdle
  /\ values = defaultValues
  /\ props = 0
  /\ timeouts = debouncedCall({}, 0, defaultValues, 0)
  /\ clock = 0
  /\ lastChange = 0
  /\ sentSinceChange = 0
  /\ lastRequest = NoRequest

\* handleSliderChange: setValues, the render, and the effect it triggers
HandleSliderChange ==
  /\ \E key \in SliderKeys : \E position \in SliderPositions(key) :
       /\ values' = [values EXCEPT ![key] = position]
       /\ timeouts' = debouncedCall(timeouts, props, values', clock)
  /\ lastChange' = clock
  /\ sentSinceChange' = 0
  /\ UNCHANGED <<pipeline, session, wizard, props, clock, lastRequest>>

\* a render with a new simulationId or onUpdate: useCallback keeps the new
\* debounced function, and the effect calls it with the present values
PropsChange ==
  /\ props < MaxRenders
  /\ props' = props + 1
  /\ timeouts' = debouncedCall(timeouts, props', values, clock)
  /\ UNCHANGED <<pipeline, session, wizard, values, clock, lastChange,
                 sentSinceChange, lastRequest>>

\* a timer runs out: the adjust request is sent with the arguments of the call
TimeoutFires ==
  /\ \E t \in timeouts :
       /\ t.due <= clock
       /\ timeouts' = timeouts \ {t}
       /\ lastRequest' = [sent |-> TRUE, body |-> t.args, current |-> values,
                          quiet |-> clock - lastChange]
  /\ sentSinceChange' = sentSinceChange + 1
  /\ UNCHANGED <<pipeline, session, wizard, values, props, clock, lastChange>>

\* time passes; a timer that is due runs first
ClockTick ==
  /\ clock < MaxClock
  /\ \A t \in timeouts : t.due > clock
  /\ clock' = clock + TickMs
  /\ UNCHANGED <<pipeline, session, wizard, values, props, timeouts, lastChange,
                 sentSinceChange, lastRequest>>

NextSliders ==
  \/ HandleSliderChange
  \/ PropsChange
  \/ TimeoutFires
  \/ ClockTick

SpecSliders == InitSliders /\ [][NextSliders]_vars

----------------------------------------------------------------------------
(* BusinessSimulation: the questionnaire step of the wizard *)

\* the questionnaire is complete after this many answers
MaxQuestions == 12

\* the delay of the timer that shows the results
ResultsDelay == 2000

\* handleQuestionAnswered asks for a simulation update at this answer count
updateDue(questionCount) == questionCount >= 3 /\ questionCount % 3 = 0

\* the request updateSimulationWithCurrentAnswers sends
simulationRequest(seq, questionCount, final) ==
  [seq |-> seq, questionCount |-> questionCount, final |-> final]

\* newSimulationData built from the response to request r
newSimulationData(r) ==
  [t |-> "obj", simulation_id |-> N(r.seq), questionnaire_progress |-> N(r.questionCount)]

\* the entry after updateQuestionnaireData(answers, questionCount)
entryWithAnswers(entry, questionCount, time) ==
  newStateEntry(clearedByGetState(entry, time),
                [t |-> "obj",
                 questionnaireData |->
                   questionnaireDataOf(Answers(questionCount), N(questionCount), time)],
                time)

\* the entry after updateSimulationData(newSimulationData)
entryWithSimulation(entry, r, time) ==
  newStateEntry(entry, [t |-> "obj", simulationData |-> newSimulationData(r)], time)

\* the company is set up and its file uploaded: the questionnaire begins
InitWizard ==
  /\ PipelineIdle
  /\ SlidersIdle
  /\ localStorage \in {newStateEntry(Null, [t |-> "obj", companyData |-> c], 0) : c \in Companies}
  /\ now = 0
  /\ listeners = {}
  /\ removed = {}
  /\ invoked = NotInvoked
  /\ observed = NothingObserved
  /\ called = NoCall
  /\ returned = Undef
  /\ before = Null
  /\ currentStep = "questionnaire"
  /\ answered = 0
  /\ requests = {}
  /\ issued = 0
  /\ applied = 0
  /\ completion = "idle"
  /\ finalOutcome = "none"
  /\ resultsTimer = -1

\* submitAnswer of the questionnaire calls handleQuestionAnswered, which is
\* not awaited: the progress is saved and, at every third answer, a request sent
HandleQuestionAnswered ==
  /\ currentStep = "questionnaire"
  /\ completion = "idle"
  /\ answered < MaxQuestions
  /\ answered' = answered + 1
  /\ localStorage' = entryWithAnswers(localStorage, answered', now)
  /\ IF updateDue(answered')
     THEN /\ requests' = requests \cup {simulationRequest(issued + 1, answered', FALSE)}
          /\ issued' = issued + 1
     ELSE UNCHANGED <<requests, issued>>
  /\ UNCHANGED <<pipeline, sliders, now, listeners, removed, invoked, observed,
                 called, returned, before, currentStep, applied, completion,
                 finalOutcome, resultsTimer>>

\* handleQuestionnaireComplete up to its await: the final request is sent
HandleQuestionnaireComplete ==
  /\ currentStep = "questionnaire"
  /\ completion = "idle"
  /\ answered = MaxQuestions
  /\ currentStep' = "processing"
  /\ localStorage' = clearedByGetState(localStorage, now)
  /\ requests' = requests \cup {simulationRequest(issued + 1, 12, TRUE)}
  /\ issued' = issued + 1
  /\ completion' = "awaiting"
  /\ UNCHANGED <<pipeline, sliders, now, listeners, removed, invoked, observed,
                 called, returned, before, answered, applied, finalOutcome,
                 resultsTimer>>

\* handleQuestionnaireComplete after its await: the questionnaire is marked
\* completed and the timer set, whatever the outcome of the final request
completionResumes(entry, outcome) ==
  /\ localStorage' = entryWithAnswers(entry, 12, now)
  /\ completion' = "timer"
  /\ finalOutcome' = outcome
  /\ resultsTimer' = ResultsDelay

\* a response with response.ok arrives: updateSimulationData stores it
ResponseOk ==
  /\ \E r \in requests :
       /\ requests' = requests \ {r}
       /\ applied' = r.seq
       /\ IF r.final
          THEN completionResumes(entryWithSimulation(localStorage, r, now), "ok")
          ELSE /\ localStorage' = entryWithSimulation(localStorage, r, now)
               /\ UNCHANGED <<completion, finalOutcome, resultsTimer>>
  /\ UNCHANGED <<pipeline, sliders, now, listeners, removed, invoked, observed,
                 called, returned, before, currentStep, answered, issued>>

\* fetch rejects or the response is not ok: the catch block, or the skipped
\* branch, leaves the store alone and the function returns normally
ResponseFailed ==
  /\ \E r \in requests :
       /\ requests' = requests \ {r}
       /\ IF r.final
          THEN completionResumes(localStorage, "failed")
          ELSE UNCHANGED <<localStorage, completion, finalOutcome, resultsTimer>>
  /\ UNCHANGED <<pipeline, sliders, now, listeners, removed, invoked, observed,
                 called, returned, before, currentStep, answered, issued, applied>>

\* time passes while the results timer is pending
ResultsTimerRuns ==
  /\ completion = "timer"
  /\ resultsTimer > 0
  /\ resultsTimer' = resultsTimer - TickMs
  /\ UNCHANGED <<pipeline, sliders, session, currentStep, answered, requests,
                 issued, applied, completion, finalOutcome>>

\* the timer callback: setCurrentStep('results')
ResultsTimerFires ==
  /\ completion = "timer"
  /\ resultsTimer <= 0
  /\ currentStep' = "results"
  /\ completion' = "done"
  /\ UNCHANGED <<pipeline, sliders, session, answered, requests, issued, applied,
                 finalOutcome, resultsTimer>>

NextWizard ==
  \/ HandleQuestionAnswered
  \/ HandleQuestionnaireComplete
  \/ ResponseOk
  \/ ResponseFailed
  \/ ResultsTimerRuns
  \/ ResultsTimerFires

SpecWizard == InitWizard /\ [][NextWizard]_vars

----------------------------------------------------------------------------
(* Properties *)

PLFields ==
  {"monthlyRevenue", "monthlyCOGS", "monthlyLabor", "monthlyOverhead",
   "monthlyProfit", "averagePrice", "unitsSold", "marketingSpend"}

\* the payload is absent (null or undefined)
AbsentPayload == simulationData.t \in {"undef", "null"}

\* the six payload fields extractPLData reads, as the payload holds them
PayloadField(f) ==
  CASE f = "monthlyRevenue"  -> Get(Get(simulationData, "baseline"), "revenue")
    [] f = "monthlyCOGS"     -> Get(Get(Get(simulationData, "baseline"), "costs"), "cogs")
    [] f = "monthlyLabor"    -> Get(Get(Get(simulationData, "baseline"), "costs"), "labor")
    [] f = "monthlyOverhead" -> Get(Get(Get(simulationData, "baseline"), "costs"), "overhead")
    [] f = "averagePrice"    -> Get(simulationData, "averagePrice")
    [] f = "marketingSpend"  -> Get(simulationData, "marketingSpend")

ReadFields ==
  {"monthlyRevenue", "monthlyCOGS", "monthlyLabor", "monthlyOverhead",
   "averagePrice", "marketingSpend"}

\* every field the payload holds is a non-negative number
WellFormedPayload ==
  \A f \in ReadFields : PayloadField(f).t = "undef" \/ NonNegative(PayloadField(f))

Extracted == pc # "payload"

\* C1: with the default baseline, price 50, marketing spend 3000 and no lever
\* positions, the summary of the forecast has newProfit = currentProfit = 8000,
\* monthlyDifference = 0 and roi = 0.
C1_NoChangeScenario ==
  ( /\ pc = "summary"
    /\ AbsentPayload
    /\ priceValue = N(50)
    /\ marketingValue = N(3000)
    /\ ~withFactors )
  => /\ summaryMetrics.newProfit = N(8000)
     /\ summaryMetrics.currentProfit = N(8000)
     /\ summaryMetrics.monthlyDifference = N(0)
     /\ summaryMetrics.roi = N(0)

\* C2: extractPLData of an absent payload is exactly the default snapshot.
C2_AbsentPayloadGivesDefaults ==
  (Extracted /\ AbsentPayload)
  => baselineData = [monthlyRevenue  |-> N(100000),
                     monthlyCOGS     |-> N(60000),
                     monthlyLabor    |-> N(20000),
                     monthlyOverhead |-> N(12000),
                     monthlyProfit   |-> N(8000),
                     averagePrice    |-> N(50),
                     unitsSold       |-> N(2000),
                     marketingSpend  |-> N(3000)]

C2_Witness == pc = "baseline" /\ simulationData.t = "null"

\* C3 as stated: for a payload whose present fields are non-negative numbers,
\* every field of the snapshot is populated, finite and non-negative.
C3_AllFieldsNonNegative ==
  (Extracted /\ WellFormedPayload)
  => \A f \in PLFields : NonNegative(baselineData[f])

\* C3 amended: for such a payload every field of the snapshot is populated and
\* finite, and every field other than monthlyProfit is non-negative.
C3_FieldsFiniteAndCostsNonNegative ==
  (Extracted /\ WellFormedPayload)
  => /\ DOMAIN baselineData = PLFields
     /\ \A f \in PLFields : IsFinite(baselineData[f])
     /\ \A f \in PLFields \ {"monthlyProfit"} : NonNegative(baselineData[f])

C3_Witness ==
  /\ pc = "baseline"
  /\ WellFormedPayload
  /\ PayloadField("monthlyRevenue") = N(1000)
  /\ PayloadField("averagePrice") = N(0)
  /\ baselineData.monthlyProfit.i < 0

\* C4: when a payload is supplied, monthlyProfit is revenue - cogs - labor -
\* overhead of the resolved values and unitsSold is revenue / averagePrice.
C4_ProfitAndUnitsComputed ==
  (Extracted /\ ~AbsentPayload)
  => /\ baselineData.monthlyProfit =
          JSub(JSub(JSub(baselineData.monthlyRevenue, baselineData.monthlyCOGS),
                    baselineData.monthlyLabor),
               baselineData.monthlyOverhead)
     /\ baselineData.unitsSold =
          JDiv(baselineData.monthlyRevenue, baselineData.averagePrice)

C4_Witness ==
  /\ pc = "baseline"
  /\ PayloadField("monthlyRevenue") = N(120000)
  /\ PayloadField("monthlyCOGS").t = "undef"
  /\ PayloadField("averagePrice") = N(40)
  /\ baselineData.monthlyProfit = N(28000)
  /\ baselineData.unitsSold = N(3000)

DefaultOf(f) ==
  CASE f = "monthlyRevenue"  -> N(100000)
    [] f = "monthlyCOGS"     -> N(60000)
    [] f = "monthlyLabor"    -> N(20000)
    [] f = "monthlyOverhead" -> N(12000)
    [] f = "averagePrice"    -> N(50)
    [] f = "marketingSpend"  -> N(3000)

\* C5: each field that is absent, falsy or not a number is replaced by its
\* default constant; a non-zero number is kept.
C5_MalformedFieldsDefaulted ==
  (Extracted /\ ~AbsentPayload)
  => \A f \in ReadFields :
       baselineData[f] =
         IF PayloadField(f).t = "num" /\ Sign(PayloadField(f)) # 0
         THEN PayloadField(f)
         ELSE DefaultOf(f)

\* the price change relative to the baseline's average price
C_PctChange ==
  JDiv(JSub(priceValue, baselineData.averagePrice), baselineData.averagePrice)

PriceDone == pc \notin {"payload", "baseline"}

\* every field of the snapshot is a number, as PLData declares
NumericBaseline == \A f \in PLFields : IsFinite(baselineData[f])

\* C6: for a snapshot of numbers and a price equal to its average price,
\* calculatePriceImpact returns demandChange = 0 and revenue = the snapshot's
\* monthly revenue.
C6_UnchangedPriceKeepsRevenue ==
  (PriceDone /\ NumericBaseline /\ priceValue = baselineData.averagePrice)
  => /\ priceImpact.demandChange = N(0)
     /\ priceImpact.revenue = baselineData.monthlyRevenue

C6_Witness ==
  /\ pc = "price"
  /\ priceValue = N(40)
  /\ baselineData.averagePrice = N(40)
  /\ baselineData.monthlyRevenue = N(128000)
  /\ priceImpact.revenue = N(128000)

\* C7: demandChange is -1.5 times the relative price change when the price
\* rises and -0.8 times it otherwise, units = unitsSold * (1 + demandChange) and
\* revenue = newPrice * units; the default baseline at price 60 gives
\* demandChange = -0.30, units = 1400 and revenue = 84000.
C7_AsymmetricElasticity ==
  PriceDone
  => /\ priceImpact.demandChange =
          IF JGt(C_PctChange, N(0))
          THEN JMul(Num(-3, 2), C_PctChange)
          ELSE JMul(Num(-4, 5), C_PctChange)
     /\ priceImpact.units =
          JMul(baselineData.unitsSold, JAdd(N(1), priceImpact.demandChange))
     /\ priceImpact.revenue = JMul(priceValue, priceImpact.units)
     /\ (AbsentPayload /\ priceValue = N(60))
        => /\ priceImpact.demandChange = Num(-3, 10)
           /\ priceImpact.units = N(1400)
           /\ priceImpact.revenue = N(84000)

C7_Witness ==
  /\ pc = "price"
  /\ AbsentPayload
  /\ priceValue = N(60)
  /\ priceImpact.revenue = N(84000)

MarketingDone == pc \notin {"payload", "baseline", "price"}

C_Extra == JSub(marketingValue, baselineData.marketingSpend)

\* the tiered response to extra spend e, as the claim states it
C_TieredBoost(e) ==
  CASE ~JGt(e, N(0)) -> N(0)
    [] JGt(e, N(0)) /\ ~JGt(e, N(10000)) -> JDiv(JMul(Num(1, 5), e), N(10000))
    [] JGt(e, N(10000)) /\ ~JGt(e, N(20000)) ->
         JAdd(Num(1, 5), JDiv(JMul(Num(1, 10), JSub(e, N(10000))), N(10000)))
    [] OTHER ->
         JAdd(Num(3, 10),
              MathMin(JDiv(JMul(Num(1, 20), JSub(e, N(20000))), N(10000)), Num(1, 5)))

\* C8: calculateMarketingImpact is the tiered, capped function of the spend
\* above the baseline's: 0 at the baseline spend, 0.20 at +10000, 0.50 at
\* +1000000, and always within [0, 0.50].
C8_TieredMarketingBoost ==
  MarketingDone
  => /\ marketingBoost = C_TieredBoost(C_Extra)
     /\ ~NumLt(marketingBoost, N(0))
     /\ ~NumLt(Num(1, 2), marketingBoost)
     /\ IsFinite(marketingBoost)
     /\ C_Extra = N(0) => marketingBoost = N(0)
     /\ C_Extra = N(10000) => marketingBoost = Num(1, 5)
     /\ C_Extra = N(1000000) => marketingBoost = Num(1, 2)

C8_Witness ==
  /\ pc = "marketing"
  /\ C_Extra = N(1000000)
  /\ marketingBoost = Num(1, 2)

AutomationDone == pc \notin {"payload", "baseline", "price", "marketing"}

C_AutomationTiers == MathFloor(JDiv(JSub(laborAutomation, N(10)), N(10)))

C_OperatingExpenses ==
  JAdd(JAdd(baselineData.monthlyCOGS, baselineData.monthlyLabor),
       baselineData.monthlyOverhead)

\* C9: with tiers = floor((level - 10) / 10), calculateLaborAutomationImpact
\* returns laborCostReduction = tiers * 0.08 * 0.35 * (COGS + labor + overhead),
\* automationInvestment = tiers * 2000 and netImpact = their difference; level
\* 10 (and 11..19) gives all zeros, level 20 an investment of 2000, level 30 of
\* 4000.
C9_AutomationTiers ==
  AutomationDone
  => /\ NumericBaseline
        => /\ automationImpact.laborCostReduction =
                JMul(JMul(JMul(C_AutomationTiers, Num(8, 100)), Num(35, 100)),
                     C_OperatingExpenses)
           /\ automationImpact.automationInvestment = JMul(C_AutomationTiers, N(2000))
           /\ automationImpact.netImpact =
                JSub(automationImpact.laborCostReduction,
                     automationImpact.automationInvestment)
     /\ laborAutomation \in {N(10), N(11), N(15), N(19)}
        => automationImpact = [laborCostReduction |-> N(0),
                               automationInvestment |-> N(0),
                               netImpact |-> N(0)]
     /\ laborAutomation = N(20) => automationImpact.automationInvestment = N(2000)
     /\ laborAutomation = N(30) => automationImpact.automationInvestment = N(4000)

C9_Witness ==
  /\ pc = "automation"
  /\ laborAutomation = N(19)
  /\ automationImpact.netImpact = N(0)

EfficiencyDone ==
  pc \notin {"payload", "baseline", "price", "marketing", "automation"}

C_EfficiencyTiers == MathFloor(JDiv(JSub(productionEfficiency, N(100)), N(10)))

\* C10: with tiers = floor((eff - 100) / 10), calculateProductionEfficiencyImpact
\* returns cogsReduction = tiers * 0.06 * (0.60 * monthlyRevenue),
\* revenueIncrease = tiers * 0.05 * monthlyRevenue, implementationCost =
\* tiers * 1500 and netImpact = cogsReduction + revenueIncrease -
\* implementationCost, whatever the snapshot's own monthlyCOGS.
C10_EfficiencyTiers ==
  (EfficiencyDone /\ NumericBaseline)
  => /\ efficiencyImpact.cogsReduction =
          JMul(JMul(C_EfficiencyTiers, Num(6, 100)),
               JMul(Num(60, 100), baselineData.monthlyRevenue))
     /\ efficiencyImpact.revenueIncrease =
          JMul(JMul(C_EfficiencyTiers, Num(5, 100)), baselineData.monthlyRevenue)
     /\ efficiencyImpact.implementationCost = JMul(C_EfficiencyTiers, N(1500))
     /\ efficiencyImpact.netImpact =
          JSub(JAdd(efficiencyImpact.cogsReduction, efficiencyImpact.revenueIncrease),
               efficiencyImpact.implementationCost)

C10_Witness ==
  /\ pc = "efficiency"
  /\ productionEfficiency = N(110)
  /\ baselineData.monthlyRevenue = N(128000)
  /\ baselineData.monthlyCOGS = N(64000)
  /\ efficiencyImpact.cogsReduction = N(4608)

InventoryDone == pc \in {"inventory", "forecast", "summary"}

\* rate - 6, as an integer
C_TurnoverDelta == inventoryTurnover.i - 6

\* C11: calculateInventoryTurnoverImpact(B, rate) with delta = rate - 6 returns
\* carryingCostReduction = 500*delta, wasteReduction = 300*delta,
\* implementationCost = floor(delta/2)*800 and netImpact = their balance, for
\* every B; rate 6 gives the all-zero record, rate 7 implementationCost 0 and
\* rate 8 implementationCost 800.
C11_InventoryTurnoverImpact ==
  InventoryDone
  => /\ inventoryImpact.carryingCostReduction = N(500 * C_TurnoverDelta)
     /\ inventoryImpact.wasteReduction = N(300 * C_TurnoverDelta)
     /\ inventoryImpact.implementationCost = N((C_TurnoverDelta \div 2) * 800)
     /\ inventoryImpact.netImpact =
          N(500 * C_TurnoverDelta + 300 * C_TurnoverDelta
            - (C_TurnoverDelta \div 2) * 800)
     /\ (inventoryTurnover = N(6)
          => \A f \in DOMAIN inventoryImpact : inventoryImpact[f] = N(0))
     /\ (inventoryTurnover = N(7) => inventoryImpact.implementationCost = N(0))
     /\ (inventoryTurnover = N(8) => inventoryImpact.implementationCost = N(800))

C11_Witness ==
  /\ pc = "inventory"
  /\ inventoryTurnover = N(8)
  /\ inventoryImpact.implementationCost = N(800)
  /\ inventoryImpact.netImpact = N(800)

ForecastDone == pc \in {"forecast", "summary"}

\* generateForecastData has just returned
ForecastReturned == pc = "forecast"

\* 1 + 0.035 * i / 12, for the month index i counted from 0
C_Growth(i) == Num(12000 + 35 * i, 12000)

\* f = growth * seasonal of month i
C_Factor(i) == JMul(C_Growth(i), Num(seasonalFactors[i + 1], 100))

\* another call on the same baseline, with another price, another marketing
\* spend and other operational factors than the call that was made
C_OtherForecast ==
  generateForecastData(
    baselineData,
    IF priceValue = N(40) THEN N(60) ELSE N(40),
    IF marketingValue = N(13000) THEN N(0) ELSE N(13000),
    IF withFactors /\ laborAutomation # N(baselineAutomation)
    THEN Undef
    ELSE OperationalFactors(N(30), N(110), N(8)))

\* the original (control) part of a forecast
C_OriginalSeries(f) ==
  [i \in 1..Len(f) |->
     <<f[i].month, f[i].originalProfit, f[i].originalLowerBound, f[i].originalUpperBound>>]

\* C12: the original series does not depend on the levers: for a fixed
\* baseline, calls with another price, marketing spend or operational factors
\* return the same originalProfit and original bounds for each of the 12
\* months Jan..Dec, and for a baseline of numbers originalProfit is
\* round(monthlyProfit * (1 + 0.035*i/12) * seasonal[i]).
C12_OriginalSeriesIndependent ==
  ForecastDone
  => /\ Len(forecastData) = 12
     /\ \A i \in 1..12 : forecastData[i].month = months[i]
     /\ pc = "forecast"
          => C_OriginalSeries(C_OtherForecast) = C_OriginalSeries(forecastData)
     /\ NumericBaseline
          => \A i \in 1..12 :
               forecastData[i].originalProfit =
                 MathRound(JMul(baselineData.monthlyProfit, C_Factor(i - 1)))

C12_Witness ==
  /\ pc = "forecast"
  /\ priceValue = N(60)
  /\ marketingValue = N(13000)
  /\ laborAutomation = N(30)
  /\ baselineData.monthlyProfit = N(24000)
  /\ forecastData[1].originalProfit = N(22800)
  /\ forecastData[1].adjustedProfit # forecastData[1].originalProfit
  /\ C_OtherForecast[1].adjustedProfit # forecastData[1].adjustedProfit

\* a field of a lever's impact record as the forecast sees it: 0 when the
\* operational factors are not supplied
C_Lever(impact, field) == IF withFactors THEN impact[field] ELSE N(0)

\* the claimed unrounded adjusted profit of a month with factor f
C_AdjustedProfitAt(f) ==
  JAdd(
    JAdd(
      JSub(
        JSub(
          JSub(
            JSub(JAdd(JMul(JMul(priceImpact.revenue, JAdd(N(1), marketingBoost)), f),
                      JMul(C_Lever(efficiencyImpact, "revenueIncrease"), f)),
                 JSub(JMul(priceImpact.cogs, f),
                      JMul(C_Lever(efficiencyImpact, "cogsReduction"), f))),
            baselineData.monthlyLabor),
          baselineData.monthlyOverhead),
        marketingValue),
      C_Lever(automationImpact, "netImpact")),
    C_Lever(inventoryImpact, "netImpact"))

\* the claimed unrounded adjusted profit of month i (counted from 0)
C_AdjustedProfit(i) == C_AdjustedProfitAt(C_Factor(i))

\* C13: for a snapshot of numbers, adjustedProfit of month i is the rounded
\* sum in which only the revenue and COGS terms carry the factor
\* f = (1 + 0.035*i/12) * seasonal[i]; labor, overhead, the marketing spend
\* and the automation and inventory net impacts enter unscaled.
C13_AdjustedProfitFormula ==
  (ForecastReturned /\ NumericBaseline)
  => \A i \in 1..12 :
       forecastData[i].adjustedProfit = MathRound(C_AdjustedProfit(i - 1))

C13_Witness ==
  /\ pc = "forecast"
  /\ NumericBaseline
  /\ priceValue = N(60)
  /\ marketingValue = N(13000)
  /\ laborAutomation = N(30)
  /\ productionEfficiency = N(110)
  /\ inventoryTurnover = N(8)
  /\ baselineData.monthlyRevenue = N(128000)
  /\ efficiencyImpact.revenueIncrease = N(6400)
  /\ automationImpact.netImpact # N(0)
  /\ forecastData[7].adjustedProfit = MathRound(C_AdjustedProfit(6))

\* the claimed unrounded original profit of month i (counted from 0)
C_OriginalProfit(i) == JMul(baselineData.monthlyProfit, C_Factor(i))

\* profit, lower and upper bound from one unrounded profit p
C_Band(p) == <<MathRound(p), MathRound(JMul(Num(85, 100), p)), MathRound(JMul(Num(115, 100), p))>>

\* C14: in every point of a forecast on a snapshot of numbers, each series
\* reports round(p), round(0.85*p) and round(1.15*p) of its own unrounded
\* profit p of that month, each rounded on its own.
C14_BoundsFromUnroundedProfit ==
  (ForecastReturned /\ NumericBaseline)
  => \A i \in 1..12 :
       /\ <<forecastData[i].originalProfit, forecastData[i].originalLowerBound,
            forecastData[i].originalUpperBound>> = C_Band(C_OriginalProfit(i - 1))
       /\ <<forecastData[i].adjustedProfit, forecastData[i].adjustedLowerBound,
            forecastData[i].adjustedUpperBound>> = C_Band(C_AdjustedProfit(i - 1))

\* a point whose lower bound is not 85% of its rounded profit
C14_Witness ==
  /\ pc = "forecast"
  /\ NumericBaseline
  /\ \E i \in 1..12 :
       /\ forecastData[i].adjustedLowerBound = MathRound(JMul(Num(85, 100), C_AdjustedProfit(i - 1)))
       /\ forecastData[i].adjustedLowerBound #
            MathRound(JMul(Num(85, 100), forecastData[i].adjustedProfit))

\* a <= b on numbers
C_Leq(a, b) == ~NumLt(b, a)

\* C15: in every forecast point the bounds bracket the value:
\* originalLowerBound <= originalProfit <= originalUpperBound and
\* adjustedLowerBound <= adjustedProfit <= adjustedUpperBound.
C15_BoundsBracketProfit ==
  ForecastReturned
  => \A i \in 1..12 :
       /\ C_Leq(forecastData[i].originalLowerBound, forecastData[i].originalProfit)
       /\ C_Leq(forecastData[i].originalProfit, forecastData[i].originalUpperBound)
       /\ C_Leq(forecastData[i].adjustedLowerBound, forecastData[i].adjustedProfit)
       /\ C_Leq(forecastData[i].adjustedProfit, forecastData[i].adjustedUpperBound)

\* the three levers stand at their neutral positions 10, 100 and 6
C_NeutralLevers ==
  /\ laborAutomation = N(10)
  /\ productionEfficiency = N(100)
  /\ inventoryTurnover = N(6)

\* the same call with the operational factors the other way: omitted if they
\* were supplied, the neutral positions if they were omitted
C_ForecastOtherWay ==
  generateForecastData(baselineData, priceValue, marketingValue,
                       IF withFactors THEN Undef
                       ELSE OperationalFactors(N(10), N(100), N(6)))

\* C16: for every baseline, price and marketing spend, the forecast without
\* operational factors equals, point for point, the forecast with the neutral
\* lever positions {10, 100, 6}.
C16_OmittedFactorsAreNeutral ==
  (ForecastReturned /\ (withFactors => C_NeutralLevers))
  => forecastData = C_ForecastOtherWay

C16_Witness ==
  /\ pc = "forecast"
  /\ withFactors
  /\ C_NeutralLevers
  /\ priceValue = N(60)
  /\ marketingValue = N(13000)
  /\ baselineData.monthlyRevenue = N(128000)
  /\ forecastData = generateForecastData(baselineData, priceValue, marketingValue, Undef)
  /\ forecastData[1].adjustedProfit # N(0)

\* adjusted - original of point i, less the claimed (labor + overhead) * (f - 1)
C_UnexplainedDifference(i) ==
  JSub(JSub(forecastData[i].adjustedProfit, forecastData[i].originalProfit),
       JMul(JAdd(baselineData.monthlyLabor, baselineData.monthlyOverhead),
            JSub(C_Factor(i - 1), N(1))))

\* C17: for a snapshot B of numbers, the forecast at B.averagePrice and
\* B.marketingSpend without operational factors has, in every month,
\* adjusted - original = (B.monthlyLabor + B.monthlyOverhead) * (f - 1) up to
\* the two roundings.
C17_NoChangeDiffersByLaborOverhead ==
  (/\ ForecastReturned
   /\ NumericBaseline
   /\ ~withFactors
   /\ priceValue = baselineData.averagePrice
   /\ marketingValue = baselineData.marketingSpend)
  => \A i \in 1..12 :
       /\ C_Leq(N(-1), C_UnexplainedDifference(i))
       /\ C_Leq(C_UnexplainedDifference(i), N(1))

SummaryDone == pc = "summary"

\* the forecast with its points after the first replaced by other values
C_OnlyFirstPointKept ==
  [i \in 1..12 |->
     IF i = 1 THEN forecastData[1]
     ELSE [forecastData[i] EXCEPT !.adjustedProfit = N(i), !.originalProfit = N(-i)]]

\* C18: calculateSummaryMetrics returns currentProfit = B.monthlyProfit,
\* newProfit = the adjustedProfit of the first (Jan) point, 0 for an empty
\* series, monthlyDifference = newProfit - currentProfit and
\* annualDifference = 12 * monthlyDifference; the other 11 points have no
\* influence on the result.
C18_SummaryFromFirstPoint ==
  SummaryDone
  => /\ summaryMetrics.currentProfit = baselineData.monthlyProfit
     /\ summaryMetrics.newProfit = forecastData[1].adjustedProfit
     /\ summaryMetrics.monthlyDifference =
          JSub(forecastData[1].adjustedProfit, baselineData.monthlyProfit)
     /\ summaryMetrics.annualDifference = JMul(N(12), summaryMetrics.monthlyDifference)
     /\ calculateSummaryMetrics(baselineData, C_OnlyFirstPointKept, marketingValue,
                                operationalFactors) = summaryMetrics
     /\ calculateSummaryMetrics(baselineData, <<>>, marketingValue,
                                operationalFactors).newProfit = N(0)

C18_Witness ==
  /\ pc = "summary"
  /\ priceValue = N(60)
  /\ baselineData.monthlyProfit = N(24000)
  /\ forecastData[1].adjustedProfit # forecastData[12].adjustedProfit
  /\ summaryMetrics.newProfit = forecastData[1].adjustedProfit
  /\ summaryMetrics.monthlyDifference # N(0)
  /\ summaryMetrics.annualDifference = JMul(N(12), summaryMetrics.monthlyDifference)

\* 12 * (extra marketing spend + the three lever costs, when factors are given)
C_TotalInvestment ==
  JMul(N(12),
       JAdd(JAdd(JAdd(JSub(marketingValue, baselineData.marketingSpend),
                      C_Lever(automationImpact, "automationInvestment")),
                 C_Lever(efficiencyImpact, "implementationCost")),
            C_Lever(inventoryImpact, "implementationCost")))

\* annualDifference / totalInvestment * 100, unrounded
C_Roi == JMul(JDiv(summaryMetrics.annualDifference, C_TotalInvestment), N(100))

\* x has at most one decimal and lies within 0.05 of y
C_RoundedToOneDecimal(x, y) ==
  /\ MathRound(JMul(x, N(10))) = JMul(x, N(10))
  /\ C_Leq(JSub(y, Num(5, 100)), x)
  /\ C_Leq(x, JAdd(y, Num(5, 100)))

\* C19: totalInvestment = 12 * ((marketingSpend - B.marketingSpend) +
\* automationInvestment + efficiency implementationCost + inventory
\* implementationCost), the lever costs counted only with operational
\* factors; roi = annualDifference / totalInvestment * 100 rounded to one
\* decimal when totalInvestment > 0, and 0 when totalInvestment <= 0.
C19_InvestmentAndRoi ==
  SummaryDone
  => /\ summaryMetrics.totalInvestment = C_TotalInvestment
     /\ IF JGt(C_TotalInvestment, N(0))
        THEN /\ summaryMetrics.roi = JDiv(MathRound(JMul(C_Roi, N(10))), N(10))
             /\ IsFinite(summaryMetrics.annualDifference)
                  => C_RoundedToOneDecimal(summaryMetrics.roi, C_Roi)
        ELSE summaryMetrics.roi = N(0)

C19_Witness ==
  /\ pc = "summary"
  /\ withFactors
  /\ marketingValue = N(13000)
  /\ laborAutomation = N(30)
  /\ productionEfficiency = N(110)
  /\ inventoryTurnover = N(8)
  /\ baselineData.marketingSpend = N(5000)
  /\ summaryMetrics.totalInvestment = N(171600)
  /\ summaryMetrics.roi # N(0)
  /\ summaryMetrics.roi.r # 0

\* C20: when a lever calculator's computation throws, as on a null or
\* undefined baseline, it returns its all-zero record instead of raising;
\* the calculators after it run and return what they return on any baseline.
C20_LeverErrorIsolation ==
  PropertyReadThrows(baselineData)
  => /\ AutomationDone => automationImpact = zeroLaborAutomationImpact
     /\ EfficiencyDone => efficiencyImpact = zeroProductionEfficiencyImpact
     /\ InventoryDone
          => /\ inventoryImpact.carryingCostReduction = N(500 * C_TurnoverDelta)
             /\ inventoryImpact.wasteReduction = N(300 * C_TurnoverDelta)
             /\ inventoryImpact.implementationCost = N((C_TurnoverDelta \div 2) * 800)

C20_Witness ==
  /\ pc = "inventory"
  /\ baselineData = Null
  /\ laborAutomation = N(30)
  /\ productionEfficiency = N(110)
  /\ inventoryTurnover = N(8)
  /\ automationImpact = zeroLaborAutomationImpact
  /\ efficiencyImpact = zeroProductionEfficiencyImpact
  /\ inventoryImpact.netImpact = N(800)

----------------------------------------------------------------------------
(* C21: the calculation core on a missing baseline *)

\* C21: every function of the calculation core returns a value for every
\* input, a missing baseline included: no call of calculatePriceImpact,
\* calculateMarketingImpact, generateForecastData or calculateSummaryMetrics
\* ends in an exception.
C21_CoreNeverAborts == pc # "aborted"

----------------------------------------------------------------------------
(* C29: the summary's total investment against the investment breakdown *)

\* C29: in the Sandbox (operational factors always passed), for every baseline
\* and slider position the summary's totalInvestment is twelve times the
\* breakdown's totalMonthlyCost, and neither of the two is negative.
C29_InvestmentMatchesBreakdown ==
  SummaryDone /\ withFactors =>
    /\ summaryMetrics.totalInvestment = JMul(N(12), investmentBreakdown.totalMonthlyCost)
    /\ NonNegative(summaryMetrics.totalInvestment)
    /\ NonNegative(investmentBreakdown.totalMonthlyCost)

----------------------------------------------------------------------------
(* C30: the lever costs inside the adjusted profit *)

\* the adjusted profit of a month with factor f when every lever is free: the
\* benefits the three calculators report, none of their costs
C_CostFreeProfitAt(f) ==
  NumSum(<<JMul(JMul(priceImpact.revenue, JAdd(N(1), marketingBoost)), f),
           JMul(efficiencyImpact.revenueIncrease, f),
           JNeg(JMul(priceImpact.cogs, f)),
           JMul(efficiencyImpact.cogsReduction, f),
           JNeg(baselineData.monthlyLabor),
           JNeg(baselineData.monthlyOverhead),
           JNeg(marketingValue),
           automationImpact.laborCostReduction,
           inventoryImpact.carryingCostReduction,
           inventoryImpact.wasteReduction>>)

\* the monthly costs the three calculators report, as summed into totalInvestment
C_LeverCosts ==
  NumSum(<<automationImpact.automationInvestment,
           efficiencyImpact.implementationCost,
           inventoryImpact.implementationCost>>)

\* C30: with the operational factors passed, the adjusted profit of every
\* month is the cost-free profit less the automationInvestment and the two
\* implementationCost values the lever calculators report: every cost summed
\* into totalInvestment is deducted from the profit.
C30_LeverCostsDeducted ==
  (ForecastReturned /\ NumericBaseline /\ withFactors)
  => \A i \in 1..12 :
       forecastData[i].adjustedProfit =
         MathRound(JSub(C_CostFreeProfitAt(C_Factor(i - 1)), C_LeverCosts))

----------------------------------------------------------------------------
(* C22, C26, C27, C28: the session store *)

DataFields == {"companyData", "simulationData", "questionnaireData", "fullReportData"}

SaveOps ==
  {"updateCompanyData", "updateSimulationData", "updateQuestionnaireData",
   "updateFullReportData", "clearQuestionnaireData"}

\* the fields a saving operation names
OwnFields(op) ==
  CASE op = "updateCompanyData" -> {"companyData"}
    [] op = "updateSimulationData" -> {"simulationData"}
    [] op = "updateQuestionnaireData" -> {"questionnaireData"}
    [] op = "updateFullReportData" -> {"fullReportData"}
    [] op = "clearQuestionnaireData" ->
         {"questionnaireData", "simulationData", "fullReportData"}

\* the last call found an entry, written C_AgeHours hours ago
EntryBefore == before # Null

C_AgeHours == (now - JSONParse(before).lastUpdated.date) * TickHours

\* C22: an entry written at time t is returned by getState unchanged, and
\* kept, as long as the clock is at most t + 24 h; after that getState returns
\* the empty state (all four data fields null) and removes the entry, and a
\* saveState made after that writes only its own fields onto the empty state.
C22_EntryExpiresAfter24Hours ==
  /\ (called.op = "getState" /\ EntryBefore) =>
       IF C_AgeHours <= 24
       THEN returned = JSONParse(before) /\ localStorage = before
       ELSE (\A f \in DataFields : returned[f] = Null) /\ localStorage = Null
  /\ (called.op \in SaveOps /\ called.ok /\ EntryBefore /\ C_AgeHours > 24) =>
       \A f \in DataFields \ OwnFields(called.op) : JSONParse(localStorage)[f] = Null

C22_Witness ==
  /\ called.op = "getState"
  /\ EntryBefore
  /\ C_AgeHours > 24
  /\ JSONParse(before).companyData # Null
  /\ JSONParse(before).simulationData # Null
  /\ returned.companyData = Null
  /\ localStorage = Null

C_StateBefore == getState(before, now)

\* the step the claim assigns to a state
C_StepOf(state) ==
  IF state.companyData = Null THEN "landing"
  ELSE IF state.questionnaireData = Null
          \/ Cardinality(ObjectKeys(state.questionnaireData.answers)) = 0
       THEN "upload"
  ELSE IF "completedAt" \notin DOMAIN state.questionnaireData THEN "questionnaire"
  ELSE IF state.simulationData # Null THEN "results"
  ELSE "processing"

\* C27: getCurrentStep returns the step of the decision table applied to the
\* stored state, never 'setup'; and once clearQuestionnaireData has written
\* its entry with a company present, getCurrentStep returns 'upload'.
C27_StepFromStoredState ==
  /\ called.op = "getCurrentStep" =>
       returned = C_StepOf(C_StateBefore) /\ returned # "setup"
  /\ (called.op = "clearQuestionnaireData" /\ called.ok
      /\ JSONParse(localStorage).companyData # Null) =>
       getCurrentStep(localStorage, now) = "upload"

C27_Witness ==
  /\ called.op = "getCurrentStep"
  /\ returned = "processing"
  /\ C_StateBefore.questionnaireData.questionCount = N(12)
  /\ C_StateBefore.simulationData = Null

\* C28: on a state that has not expired, an update that wrote its entry left
\* every data field but its own as it was and stored its argument in its
\* own field; clearQuestionnaireData set questionnaireData, simulationData and
\* fullReportData to null and left companyData as it was.
C28_UpdatesKeepOtherFields ==
  (called.op \in SaveOps /\ called.ok /\ (EntryBefore => C_AgeHours <= 24)) =>
    /\ \A f \in DataFields \ OwnFields(called.op) :
         JSONParse(localStorage)[f] = C_StateBefore[f]
    /\ \A f \in OwnFields(called.op) :
         JSONParse(localStorage)[f] =
           IF called.op = "clearQuestionnaireData" THEN Null ELSE JSONTree(called.arg)

C28_Witness ==
  /\ called.op = "clearQuestionnaireData"
  /\ called.ok
  /\ EntryBefore
  /\ C_AgeHours = 24
  /\ JSONParse(before).companyData # Null
  /\ JSONParse(before).simulationData # Null
  /\ JSONParse(before).questionnaireData # Null
  /\ JSONParse(before).fullReportData # Null
  /\ JSONParse(localStorage).companyData = JSONParse(before).companyData
  /\ JSONParse(localStorage).simulationData = Null

----------------------------------------------------------------------------
(* C23: the debounced adjust request *)

\* C23: an adjust request is sent only when 500 ms have passed without a
\* slider change, it carries the slider values of the last change, and no
\* second request follows it before the next change; this also when a render
\* brought a new simulationId or onUpdate while a timer was pending.
C23_OneRequestPerBurst ==
  /\ sentSinceChange <= 1
  /\ lastRequest.sent =>
       lastRequest.quiet >= 500 /\ lastRequest.body = lastRequest.current

----------------------------------------------------------------------------
(* C24, C25: the simulation updates of the questionnaire *)

\* the questionnaire_progress of the stored simulationData, 0 when none is stored
C_StoredProgress ==
  IF JSONParse(localStorage).simulationData = Null
  THEN N(0)
  ELSE JSONParse(localStorage).simulationData.questionnaire_progress

\* C24: the responses are applied in the order of their requests: the response
\* stored is never one to an earlier request than the one stored before it, and
\* the stored questionnaire_progress never decreases.
C24_ResponsesAppliedInRequestOrder ==
  [][applied' >= applied /\ ~NumLt(C_StoredProgress', C_StoredProgress)]_vars

\* C25: the wizard shows 'results' only when the final simulation update
\* succeeded; when the final request has failed the wizard is back at
\* 'questionnaire'.
C25_ResultsOnlyAfterFinalUpdate ==
  /\ currentStep = "results" => finalOutcome = "ok"
  /\ finalOutcome = "failed" => currentStep = "questionnaire"

============================================================================
